---- MODULE Spec2Model ----
(***************************************************************************)
(* The automated video-publishing pipeline of backend/publishapp/views.py  *)
(* (auto_publish and the per-keyword _generate_single_video) together with *)
(* upload_file_to_cos of backend/common/cos_utils.py.                      *)
(*                                                                         *)
(* Text is a sequence of tokens: a keyword is a sequence of one-character  *)
(* strings, a copy text a sequence of words.  TLA+ string literals are     *)
(* ASCII, so the Chinese messages and style words of the source are        *)
(* written in English or pinyin, with the original in a comment.           *)
(***************************************************************************)
EXTENDS Integers, Sequences, FiniteSets, TLC

VARIABLES
    cfg,          \* module-level configuration, read from the environment at import
    request,      \* the POST /auto-publish/ request being served
    main,         \* position of the request thread in auto_publish
    keywords,     \* auto_publish: keywords (normalized, then truncated)
    worker_count, \* auto_publish: worker_count
    results,      \* auto_publish: results
    collected,    \* history: the indices in the order as_completed yielded them
    fut,          \* the futures of future_map, by index
    w,            \* the locals of each _generate_single_video invocation, by index
    calls,        \* history: the calls each invocation made, with what they returned
    services,     \* the answers the external services may give in this run
    cos_client,   \* cos_utils._cos_client
    response      \* the HTTP response of auto_publish

vars == <<cfg, request, main, keywords, worker_count, results, collected, fut, w,
          calls, services, cos_client, response>>

---------------------------------------------------------------------------
(* Bounds of the model *)

\* longest "keywords" list of a request
MaxRaw == 2
\* configured PUBLISH_POLL_MAX_ATTEMPTS (views.py:37, default 45)
POLL_MAX_ATTEMPTS == 2

---------------------------------------------------------------------------
(* Python values *)

None == [none |-> TRUE]

Min(a, b) == IF a < b THEN a ELSE b

\* a call's outcome: it returned val, or raised an exception of a type with
\* str(exc) = msg
Ret(v) == [raised |-> FALSE, type |-> "", msg |-> "", val |-> v]
Raise(t, m) == [raised |-> TRUE, type |-> t, msg |-> m, val |-> None]

\* str.strip() on a sequence of tokens: whitespace is the token " "
RECURSIVE LStrip(_)
LStrip(s) == IF s # <<>> /\ Head(s) = " " THEN LStrip(Tail(s)) ELSE s

RECURSIVE RStrip(_)
RStrip(s) ==
    IF s # <<>> /\ s[Len(s)] = " " THEN RStrip(SubSeq(s, 1, Len(s) - 1)) ELSE s

Strip(s) == RStrip(LStrip(s))

\* x in list
In(x, list) == \E i \in 1..Len(list) : list[i] = x

---------------------------------------------------------------------------
(* Configuration: the module-level constants of views.py and the COS       *)
(* environment of cos_utils.py.  A key is "" when unset.                   *)

DefaultCfg ==
    [DOUBAO_API_KEY |-> "sk", VIDEO_API_KEY |-> "sk", PUBLISH_USE_COS |-> TRUE,
     COS_CREDENTIALS |-> TRUE, COS_BUCKET |-> "bucket",
     MAX_KEYWORDS_PER_BATCH |-> 2]

\* the values of PUBLISH_MAX_KEYWORDS_PER_BATCH tried: int() takes any integer
BatchLimits == {-1, 0, 1, 2}

\* the configurations of a batch: the keys set or not, and the batch limit
BatchConfigs ==
    {[DefaultCfg EXCEPT !.MAX_KEYWORDS_PER_BATCH = m] : m \in BatchLimits}
    \cup {[DefaultCfg EXCEPT !.DOUBAO_API_KEY = ""],
          [DefaultCfg EXCEPT !.VIDEO_API_KEY = ""]}

\* every setting a single _generate_single_video depends on
AllConfigs ==
    {[DOUBAO_API_KEY |-> d, VIDEO_API_KEY |-> v, PUBLISH_USE_COS |-> u,
      COS_CREDENTIALS |-> c, COS_BUCKET |-> b, MAX_KEYWORDS_PER_BATCH |-> 2] :
        d \in {"", "sk"}, v \in {"", "sk"}, u \in BOOLEAN, c \in BOOLEAN,
        b \in {"", "bucket"}}

VIDEO_DURATION_SECONDS == 5
VIDEO_RATIO == "16:9"

---------------------------------------------------------------------------
(* Requests and the answers of the external services *)

\* the keyword strings a request may carry: blank, plain, and one to trim
\* (the empty string behaves as the blank one: both strip to "")
RawWords == {<<" ">>, <<"a">>, <<"b">>, <<"a", " ">>}

RECURSIVE SeqsUpTo(_, _)
SeqsUpTo(S, n) ==
    IF n = 0 THEN {<< >>}
    ELSE LET shorter == SeqsUpTo(S, n - 1)
         IN  shorter \cup {Append(s, x) : s \in shorter, x \in S}

\* the lists a request may carry: every list of blank and plain keywords, and
\* two with a keyword to trim, one of them a duplicate once trimmed
KeywordLists ==
    SeqsUpTo(RawWords \ {<<"a", " ">>}, MaxRaw)
    \cup {<< <<"a", " ">> >>, << <<"a">>, <<"a", " ">> >>}

\* request.data: has_list says whether "keywords" is a list
Requests ==
    {[authenticated |-> a, has_list |-> TRUE, keywords |-> ks, keyword |-> << >>] :
        a \in BOOLEAN, ks \in KeywordLists}
    \cup {[authenticated |-> TRUE, has_list |-> FALSE, keywords |-> << >>, keyword |-> k] :
        k \in RawWords}

\* the hotspot API: data_kind is the type of payload["data"]; word is
\* data[0]["word"] for a list, the first non-blank of word/keyword/title for a dict
HotResponses ==
    {[raises |-> TRUE, status_code |-> 0, data_kind |-> "none", word |-> << >>],
     [raises |-> FALSE, status_code |-> 500, data_kind |-> "none", word |-> << >>],
     [raises |-> FALSE, status_code |-> 200, data_kind |-> "none", word |-> << >>]}
    \cup {[raises |-> FALSE, status_code |-> 200, data_kind |-> k, word |-> wd] :
            k \in {"list", "dict"}, wd \in {<<" ">>, <<"h">>}}

\* the text model: json = "bad" is a body resp.json() or the choices lookup
\* raises on; content is choices[0].message.content
TextContents == {<< >>, <<" ">>, <<"x">>}

TextResponses ==
    {[raises |-> TRUE, status_code |-> 0, json |-> "bad", content |-> << >>],
     [raises |-> FALSE, status_code |-> 500, json |-> "bad", content |-> << >>],
     [raises |-> FALSE, status_code |-> 200, json |-> "bad", content |-> << >>]}
    \cup {[raises |-> FALSE, status_code |-> 200, json |-> "ok", content |-> c] :
            c \in TextContents}

SensitiveCode == "InputTextSensitiveContentDetected"

\* the video provider's task creation
SubmitResponses ==
    {[raises |-> TRUE, status_code |-> 0, json |-> "bad", code |-> "", id |-> ""],
     [raises |-> FALSE, status_code |-> 400, json |-> "bad", code |-> "", id |-> ""],
     [raises |-> FALSE, status_code |-> 400, json |-> "ok", code |-> SensitiveCode, id |-> ""],
     [raises |-> FALSE, status_code |-> 400, json |-> "ok", code |-> "InvalidParameter", id |-> ""],
     [raises |-> FALSE, status_code |-> 200, json |-> "bad", code |-> "", id |-> ""],
     [raises |-> FALSE, status_code |-> 200, json |-> "ok", code |-> "", id |-> ""],
     [raises |-> FALSE, status_code |-> 200, json |-> "ok", code |-> "", id |-> "t1"]}

\* URLs, as their parts; "" is the empty sequence
ProviderUrl == <<"https://", "provider/v", ".mp4">>
CoverUrl == <<"https://", "provider/cover", ".png">>
CosUrl == <<"https://", "bucket.cos/publish/videos/v", ".mp4">>

\* the video provider's task status: status is payload["status"], url the one
\* string value of the payload that may be a URL
QueryPayloads ==
    {[status |-> "running", url |-> << >>],
     [status |-> "running", url |-> ProviderUrl],
     [status |-> "succeeded", url |-> CoverUrl],
     [status |-> "succeeded", url |-> ProviderUrl],
     [status |-> "FAILED", url |-> << >>],
     [status |-> "FAILED", url |-> ProviderUrl]}

QueryResponses ==
    {[raises |-> TRUE, status_code |-> 0, json |-> "bad", payload |-> None],
     [raises |-> FALSE, status_code |-> 500, json |-> "bad", payload |-> None],
     [raises |-> FALSE, status_code |-> 200, json |-> "bad", payload |-> None]}
    \cup {[raises |-> FALSE, status_code |-> 200, json |-> "ok", payload |-> p] :
            p \in QueryPayloads}

\* the download of the source video in _upload_video_to_cos; io_error is a
\* failure while streaming the body into the temporary file
DownloadResponses ==
    {[raises |-> TRUE, status_code |-> 0, io_error |-> FALSE],
     [raises |-> FALSE, status_code |-> 404, io_error |-> FALSE],
     [raises |-> FALSE, status_code |-> 200, io_error |-> TRUE],
     [raises |-> FALSE, status_code |-> 200, io_error |-> FALSE]}

\* client.put_object / get_object_url of the COS SDK
PutResponses == {[raises |-> TRUE, url |-> << >>], [raises |-> FALSE, url |-> CosUrl]}

\* header values: absent, a number, not a number, and a character that
\* str.isdigit() accepts and int() rejects (a superscript two)
HeaderValues == {<< >>, <<"7">>, <<"x">>, <<"sup2">>}

ContentRanges ==
    {<< >>, <<"bytes 0-0", "/", " ", "9">>, <<"bytes 0-0", "/", "*">>,
     <<"bytes 0-0", "/", "sup2">>}

HeadResponses ==
    {[raises |-> TRUE, content_length |-> << >>]}
    \cup {[raises |-> FALSE, content_length |-> h] : h \in HeaderValues}

RangeResponses ==
    {[raises |-> TRUE, content_range |-> << >>, content_length |-> << >>]}
    \cup {[raises |-> FALSE, content_range |-> r, content_length |-> << >>] :
            r \in ContentRanges}
    \cup {[raises |-> FALSE, content_range |-> r, content_length |-> <<"7">>] :
            r \in ContentRanges \ {<< >>}}

\* the streamed GET: a body of `length` bytes, or an exception while reading
StreamResponses ==
    {[raises |-> TRUE, length |-> 0]}
    \cup {[raises |-> FALSE, length |-> n] : n \in {0, 9000000}}

\* every answer above
\* time.strftime('%Y%m%d') and uuid.uuid4().hex[:8] when the storage key is built
KeyStamps ==
    {[date |-> "20250101", suffix |-> "0a1b2c3d"],
     [date |-> "20251231", suffix |-> "ffffffff"]}

AllServices ==
    [text |-> TextResponses, submit |-> SubmitResponses, query |-> QueryResponses,
     download |-> DownloadResponses, put |-> PutResponses, head |-> HeadResponses,
     range |-> RangeResponses, stream |-> StreamResponses, stamp |-> KeyStamps]

\* the answers drawn on in a batch: of each service one that succeeds and the
\* failures that lead the invocation elsewhere
IsBatchText(r) == ~r.raises /\ r.content = <<"x">>
IsBatchSubmit(r) == ~r.raises /\ r.json = "ok" /\ (r.code = SensitiveCode \/ r.id # "")
IsBatchQuery(r) ==
    /\ r.json = "ok"
    /\ r.payload \in {[status |-> "running", url |-> << >>],
                      [status |-> "succeeded", url |-> ProviderUrl],
                      [status |-> "FAILED", url |-> << >>]}
IsBatchDownload(r) == r.raises \/ (r.status_code = 200 /\ ~r.io_error)
IsBatchHead(r) == r.content_length = <<"7">>
IsBatchRange(r) == r.raises
IsBatchStream(r) == r.raises
IsBatchStamp(t) == t.suffix = "0a1b2c3d"

BatchServices ==
    [text |-> {r \in TextResponses : IsBatchText(r)},
     submit |-> {r \in SubmitResponses : IsBatchSubmit(r)},
     query |-> {r \in QueryResponses : IsBatchQuery(r)},
     download |-> {r \in DownloadResponses : IsBatchDownload(r)},
     put |-> PutResponses,
     head |-> {r \in HeadResponses : IsBatchHead(r)},
     range |-> {r \in RangeResponses : IsBatchRange(r)},
     stream |-> {r \in StreamResponses : IsBatchStream(r)},
     stamp |-> {t \in KeyStamps : IsBatchStamp(t)}]

---------------------------------------------------------------------------
(* The functions of views.py *)

\* str.lower() on the tokens the model uses
Lower(t) ==
    CASE t = "FAILED" -> "failed"
      [] t = ".MP4" -> ".mp4"
      [] t = "HTTPS://" -> "https://"
      [] OTHER -> t

_extract_hot_keyword(payload) ==
    IF payload.data_kind \in {"list", "dict"} /\ Strip(payload.word) # << >>
    THEN Strip(payload.word)
    ELSE << >>

\* "热点接口请求失败: HTTP {status}", "热点接口未返回有效关键词"
_fetch_hot_keyword(resp) ==
    IF resp.raises THEN Raise("ConnectionError", <<"connection error">>)
    ELSE IF resp.status_code # 200
    THEN Raise("RuntimeError", <<"hot API request failed: HTTP ", resp.status_code>>)
    ELSE LET keyword == _extract_hot_keyword(resp)
         IN  IF keyword = << >>
             THEN Raise("RuntimeError", <<"hot API returned no valid keyword">>)
             ELSE Ret(keyword)

UnsafeChars == {"/", "\\", ":", "*", "?", "\"", "<", ">", "|"}

\* " ".join(text.split()) before the ends are trimmed: every run of whitespace
\* becomes one space; the two halves are collapsed and joined, a run that
\* spans the cut counted once
RECURSIVE CollapseSpaces(_)
CollapseSpaces(s) ==
    IF Len(s) <= 1 THEN s
    ELSE LET half == Len(s) \div 2
             left == CollapseSpaces(SubSeq(s, 1, half))
             right == CollapseSpaces(SubSeq(s, half + 1, Len(s)))
         IN  IF left[Len(left)] = " " /\ right[1] = " "
             THEN left \o Tail(right)
             ELSE left \o right

MaxNameLen == 80
HotVideo == <<"h", "o", "t", "-", "v", "i", "d", "e", "o">>

_safe_filename(keyword) ==
    LET text == Strip(keyword)
    IN  IF text = << >> THEN HotVideo
        ELSE LET replaced == [i \in 1..Len(text) |->
                                 IF text[i] \in UnsafeChars THEN "_" ELSE text[i]]
                 joined == Strip(CollapseSpaces(replaced))
                 cut == SubSeq(joined, 1, Min(Len(joined), MaxNameLen))
             IN  IF cut = << >> THEN HotVideo ELSE cut

\* "未配置 DOUBAO_API_KEY", "文案生成失败: HTTP {status}", "文案生成为空"
_generate_copy(keyword, resp) ==
    IF cfg.DOUBAO_API_KEY = "" THEN Raise("RuntimeError", <<"DOUBAO_API_KEY not configured">>)
    ELSE IF resp.raises THEN Raise("ConnectionError", <<"connection error">>)
    ELSE IF resp.status_code # 200
    THEN Raise("RuntimeError", <<"copy generation failed: HTTP ", resp.status_code>>)
    ELSE IF resp.json # "ok" THEN Raise("ValueError", <<"invalid JSON">>)
    ELSE LET final_text == Strip(resp.content)
         IN  IF final_text = << >>
             THEN Raise("RuntimeError", <<"copy generation empty">>)
             ELSE Ret(final_text)

\* the words 二次元, 日漫, 动漫
StyleMarkers == {"erciyuan", "riman", "dongman"}

\* "二次元日漫风格，围绕“{keyword}”的幽默夸张短片，...，16:9，1080p。"
FallbackCopy(keyword) ==
    <<"erciyuan", "riman", "style, about">> \o keyword
        \o <<"humorous short, anime character, cinematic, 16:9, 1080p.">>

_rewrite_copy_for_safety(keyword, copy_text, resp) ==
    IF cfg.DOUBAO_API_KEY = "" THEN Ret(FallbackCopy(keyword))
    ELSE IF resp.raises THEN Raise("ConnectionError", <<"connection error">>)
    ELSE IF resp.status_code # 200 THEN Ret(FallbackCopy(keyword))
    ELSE IF resp.json # "ok" THEN Raise("ValueError", <<"invalid JSON">>)
    ELSE LET safe_text == Strip(resp.content)
         IN  IF safe_text # << >> THEN Ret(safe_text) ELSE Ret(FallbackCopy(keyword))

\* "二次元日漫风格，高饱和动漫光效，幽默夸张喜剧表达。"
StyleHint == <<"erciyuan", "riman", "style, high-saturation", "dongman", "lighting, comedy.">>

\* _ensure_anime_style without the test for a marker: the hint is always added
EnsureAlwaysAppending(copy_text) ==
    LET text == Strip(copy_text)
    IN  IF text = << >> THEN StyleHint
        ELSE text \o <<" ">> \o StyleHint

_ensure_anime_style(copy_text) ==
    LET text == Strip(copy_text)
    IN  IF text = << >> THEN StyleHint
        ELSE IF \E i \in 1..Len(text) : text[i] \in StyleMarkers THEN text
        ELSE text \o <<" ">> \o StyleHint

\* a string value that starts with "http" and contains ".mp4", in any case
_extract_video_url(payload) ==
    LET value == Strip(payload.url)
    IN  IF /\ value # << >>
           /\ Lower(Head(value)) \in {"http://", "https://"}
           /\ \E i \in 1..Len(value) : Lower(value[i]) = ".mp4"
        THEN value
        ELSE << >>

\* _submit_video_task taking every rejection with a parsed error code for a
\* sensitive-content rejection
SubmitAnyCodeSensitive(copy_text, resp) ==
    IF cfg.VIDEO_API_KEY = ""
    THEN Raise("RuntimeError", <<"PUBLISH_VIDEO_API_KEY (or DOUBAO_API_KEY) not configured">>)
    ELSE IF resp.raises THEN Raise("ConnectionError", <<"connection error">>)
    ELSE IF resp.status_code # 200
    THEN LET err_code == IF resp.json = "ok" THEN resp.code ELSE ""
         IN  IF err_code # ""
             THEN Raise("SensitiveContentError", <<"video copy hit content moderation">>)
             ELSE Raise("RuntimeError",
                        <<"video task creation failed: HTTP ", resp.status_code>>)
    ELSE IF resp.json # "ok" THEN Raise("ValueError", <<"invalid JSON">>)
    ELSE IF resp.id = ""
    THEN Raise("RuntimeError", <<"video task creation returned no task id">>)
    ELSE Ret(resp.id)

\* "未配置 PUBLISH_VIDEO_API_KEY（或 DOUBAO_API_KEY）", "视频文案触发风控: {err_msg}",
\* "视频任务创建失败: HTTP {status}, {err_msg}", "视频任务创建返回缺少任务ID"
_submit_video_task(copy_text, resp) ==
    IF cfg.VIDEO_API_KEY = ""
    THEN Raise("RuntimeError", <<"PUBLISH_VIDEO_API_KEY (or DOUBAO_API_KEY) not configured">>)
    ELSE IF resp.raises THEN Raise("ConnectionError", <<"connection error">>)
    ELSE IF resp.status_code # 200
    THEN LET err_code == IF resp.json = "ok" THEN resp.code ELSE ""
         IN  IF err_code = SensitiveCode
             THEN Raise("SensitiveContentError", <<"video copy hit content moderation">>)
             ELSE Raise("RuntimeError",
                        <<"video task creation failed: HTTP ", resp.status_code>>)
    ELSE IF resp.json # "ok" THEN Raise("ValueError", <<"invalid JSON">>)
    ELSE IF resp.id = ""
    THEN Raise("RuntimeError", <<"video task creation returned no task id">>)
    ELSE Ret(resp.id)

\* "视频任务查询失败: HTTP {status}"; returns (payload, status_text)
_query_video_task(task_id, resp) ==
    IF resp.raises THEN Raise("ConnectionError", <<"connection error">>)
    ELSE IF resp.status_code # 200
    THEN Raise("RuntimeError", <<"video task query failed: HTTP ", resp.status_code>>)
    ELSE IF resp.json # "ok" THEN Raise("ValueError", <<"invalid JSON">>)
    ELSE Ret([payload |-> resp.payload, status_text |-> Lower(resp.payload.status)])

success_states == {"succeeded", "success", "completed", "done"}
fail_states == {"failed", "error", "canceled", "cancelled"}

\* PollDecision with the URL looked for before the status is
PollDecisionUrlFirst(queried) ==
    IF _extract_video_url(queried.payload) # << >>
    THEN [do |-> "return", url |-> _extract_video_url(queried.payload)]
    ELSE IF queried.status_text \in fail_states
    THEN [do |-> "raise", url |-> << >>]
    ELSE [do |-> "sleep", url |-> << >>]

\* _wait_for_video_url, one pass of its loop on what _query_video_task returned:
\* "raise", a URL to return, or "sleep".  "视频生成失败: {payload}"
PollDecision(queried) ==
    IF queried.status_text \in fail_states
    THEN [do |-> "raise", url |-> << >>]
    ELSE IF queried.status_text \in success_states
            /\ _extract_video_url(queried.payload) # << >>
    THEN [do |-> "return", url |-> _extract_video_url(queried.payload)]
    ELSE IF _extract_video_url(queried.payload) # << >>
    THEN [do |-> "return", url |-> _extract_video_url(queried.payload)]
    ELSE [do |-> "sleep", url |-> << >>]

\* f"{value:.2f} {units[idx]}", the value in hundredths; "-" for no size
RECURSIVE SizeUnit(_, _)
SizeUnit(size_bytes, idx) ==
    IF size_bytes >= 1024 /\ idx < 3 THEN SizeUnit(size_bytes \div 1024, idx + 1) ELSE idx

Pow1024(idx) == CASE idx = 0 -> 1 [] idx = 1 -> 1024 [] idx = 2 -> 1048576 [] OTHER -> 1073741824

_format_size(size_bytes) ==
    IF size_bytes <= 0 THEN [hundredths |-> 0, unit |-> "-"]
    ELSE LET idx == SizeUnit(size_bytes, 0)
             d == Pow1024(idx)
         IN  [hundredths |-> (size_bytes * 200 + d) \div (2 * d),
              unit |-> <<"B", "KB", "MB", "GB">>[idx + 1]]

DigitChars == {"0", "1", "2", "3", "4", "5", "6", "7", "8", "9"}

\* str.isdigit(): also true of digits that int() does not take
IsDigit(s) == s # << >> /\ \A i \in 1..Len(s) : s[i] \in DigitChars \cup {"sup2"}

IntParses(s) == s # << >> /\ \A i \in 1..Len(s) : s[i] \in DigitChars

DigitVal(c) ==
    CASE c = "0" -> 0 [] c = "1" -> 1 [] c = "2" -> 2 [] c = "3" -> 3 [] c = "4" -> 4
      [] c = "5" -> 5 [] c = "6" -> 6 [] c = "7" -> 7 [] c = "8" -> 8 [] OTHER -> 9

RECURSIVE IntOf(_)
IntOf(s) == IF s = << >> THEN 0 ELSE IntOf(SubSeq(s, 1, Len(s) - 1)) * 10 + DigitVal(s[Len(s)])

\* content_range.rsplit("/", 1)[-1]
RECURSIVE AfterLastSlash(_)
AfterLastSlash(s) ==
    IF In("/", Tail(s)) THEN AfterLastSlash(Tail(s))
    ELSE IF Head(s) = "/" THEN Tail(s) ELSE s

max_probe == 8388608
chunk_size == 262144

\* the loop over resp.iter_content: bytes read until the body ends or the cap
RECURSIVE StreamRead(_, _)
StreamRead(remaining, got) ==
    IF remaining = 0 THEN got
    ELSE LET chunk == Min(remaining, chunk_size)
         IN  IF got + chunk >= max_probe THEN got + chunk
             ELSE StreamRead(remaining - chunk, got + chunk)

\* each strategy of _head_content_length: [found, size]; an exception inside
\* its try block (the request, or int()) finds nothing
NotFound == [found |-> FALSE, size |-> 0]
Found(n) == [found |-> TRUE, size |-> n]

ProbeHead(head) ==
    IF head.raises THEN NotFound
    ELSE LET raw == head.content_length
         IN  IF raw # << >> /\ IsDigit(raw)
             THEN IF IntParses(raw) THEN Found(IntOf(raw)) ELSE NotFound
             ELSE NotFound

ProbeRange(rng) ==
    IF rng.raises THEN NotFound
    ELSE LET content_range == rng.content_range
             total == Strip(AfterLastSlash(content_range))
             raw == rng.content_length
         IN  IF In("/", content_range) /\ IsDigit(total)
             THEN IF IntParses(total) THEN Found(IntOf(total)) ELSE NotFound
             ELSE IF raw # << >> /\ IsDigit(raw)
             THEN IF IntParses(raw) THEN Found(IntOf(raw)) ELSE NotFound
             ELSE NotFound

ProbeStream(stream) == IF stream.raises THEN 0 ELSE StreamRead(stream.length, 0)

\* the requests _head_content_length sends, in order: each return ends it
ProbeRequests(head, rng, stream) ==
    IF ProbeHead(head).found THEN <<"HEAD">>
    ELSE IF ProbeRange(rng).found THEN <<"HEAD", "GET Range: bytes=0-0">>
    ELSE <<"HEAD", "GET Range: bytes=0-0", "GET stream">>

\* _head_content_length without the last "except Exception: return 0"
ProbeLettingStreamRaise(url, head, rng, stream) ==
    IF ProbeHead(head).found THEN Ret(ProbeHead(head).size)
    ELSE IF ProbeRange(rng).found THEN Ret(ProbeRange(rng).size)
    ELSE IF stream.raises THEN Raise("ConnectionError", <<"connection error">>)
    ELSE Ret(ProbeStream(stream))

_head_content_length(url, head, rng, stream) ==
    IF ProbeHead(head).found THEN Ret(ProbeHead(head).size)
    ELSE IF ProbeRange(rng).found THEN Ret(ProbeRange(rng).size)
    ELSE Ret(ProbeStream(stream))

---------------------------------------------------------------------------
(* cos_utils.py *)

\* _get_client(): seen is what its test of the global _cos_client found; it
\* returns the cached client, else a new one when the configuration is
\* complete; TRUE when it returns a client
_get_client(seen) == seen \/ cfg.COS_CREDENTIALS

\* whether _get_client, having found the global unset, builds a client and
\* assigns it to the global
BuildsClient(seen) == ~seen /\ cfg.COS_CREDENTIALS

\* upload_file_to_cos(local_path, key): the URL, or None as << >>
upload_file_to_cos(seen, put) ==
    IF ~_get_client(seen) \/ cfg.COS_BUCKET = "" THEN << >>
    ELSE IF put.raises THEN << >>
    ELSE put.url

\* StorageKey with the keyword put into the key as it is
StorageKeyFromRaw(keyword, stamp) ==
    <<"publish/videos/", stamp.date, "/">> \o keyword \o <<"-", stamp.suffix, ".mp4">>

\* f"publish/videos/{date}/{title}-{suffix}.mp4"
StorageKey(keyword, stamp) ==
    <<"publish/videos/", stamp.date, "/">> \o _safe_filename(keyword)
        \o <<"-", stamp.suffix, ".mp4">>

\* _upload_video_to_cos(video_url, keyword): upload_file_to_cos(...) or ""
_upload_video_to_cos(video_url, keyword, dl, seen, put) ==
    IF ~cfg.PUBLISH_USE_COS THEN Ret(<< >>)
    ELSE IF dl.raises THEN Raise("ConnectionError", <<"connection error">>)
    ELSE IF dl.status_code # 200 THEN Ret(<< >>)
    ELSE IF dl.io_error THEN Raise("OSError", <<"I/O error">>)
    ELSE Ret(upload_file_to_cos(seen, put))

\* whether _upload_video_to_cos gets as far as calling upload_file_to_cos
ReachesCos(dl) ==
    cfg.PUBLISH_USE_COS /\ ~dl.raises /\ dl.status_code = 200 /\ ~dl.io_error

---------------------------------------------------------------------------
(* _generate_single_video, one action per blocking call *)

\* the locals of an invocation; pc is the call it makes next
Locals(keyword) ==
    [pc |-> "queued", keyword |-> keyword, copy_text |-> << >>, task_id |-> "",
     used_safe_fallback |-> FALSE, attempts |-> 0, source_video_url |-> << >>,
     cos_video_url |-> << >>, download |-> None, key |-> << >>, client |-> FALSE]

\* an invocation that returned: its locals are gone
Returned == [Locals(<< >>) EXCEPT !.pc = "done"]

Indices == DOMAIN w

\* {"keyword": keyword, "error": str(exc)}
ErrorRecord(keyword, msg) == [keyword |-> keyword, error |-> msg]

\* SuccessRecord with an "error" key always present, empty on success
SuccessRecordWithErrorKey(l, final_video_url, size_bytes) ==
    [keyword |-> l.keyword,
     error |-> << >>,
     video_title |-> _safe_filename(l.keyword),
     file_name |-> _safe_filename(l.keyword) \o <<".mp4">>,
     copy_text |-> l.copy_text,
     task_id |-> l.task_id,
     video_url |-> final_video_url,
     source_video_url |-> l.source_video_url,
     video_ratio |-> VIDEO_RATIO,
     video_resolution |-> "1080p",
     video_format |-> "mp4",
     video_duration |-> VIDEO_DURATION_SECONDS,
     video_size_bytes |-> size_bytes,
     video_size_human |-> _format_size(size_bytes),
     stored_on_cos |-> (l.cos_video_url # << >>),
     used_safe_fallback |-> l.used_safe_fallback]

\* the dict returned at the end of the try block
SuccessRecord(l, final_video_url, size_bytes) ==
    [keyword |-> l.keyword,
     video_title |-> _safe_filename(l.keyword),
     file_name |-> _safe_filename(l.keyword) \o <<".mp4">>,
     copy_text |-> l.copy_text,
     task_id |-> l.task_id,
     video_url |-> final_video_url,
     source_video_url |-> l.source_video_url,
     video_ratio |-> VIDEO_RATIO,
     video_resolution |-> "1080p",
     video_format |-> "mp4",
     video_duration |-> VIDEO_DURATION_SECONDS,
     video_size_bytes |-> size_bytes,
     video_size_human |-> _format_size(size_bytes),
     stored_on_cos |-> (l.cos_video_url # << >>),
     used_safe_fallback |-> l.used_safe_fallback]

\* an entry of the history: the function called, the answers of the services
\* it read (kept for the submit, the upload and the size probe) and its outcome
Call(fn, out) == [fn |-> fn, arg |-> None, out |-> out]
ProbeCall(url, head, rng, stream, out) ==
    [fn |-> "_head_content_length",
     arg |-> [url |-> url, head |-> head, range |-> rng, stream |-> stream,
              requests |-> ProbeRequests(head, rng, stream)],
     out |-> out]

\* the history entry of a _submit_video_task: its argument, the text of the
\* payload it built and the answer to its POST; without VIDEO_API_KEY it raises before
\* either exists
SubmitCall(copy_text, resp, out) ==
    [fn |-> "_submit_video_task",
     arg |-> IF cfg.VIDEO_API_KEY = "" THEN None
             ELSE [copy_text |-> copy_text, text |-> _ensure_anime_style(copy_text),
                   resp |-> resp],
     out |-> out]

\* the invocation goes on with new locals after a call
Continue(i, fn, out, l) ==
    /\ w' = [w EXCEPT ![i] = l]
    /\ calls' = [calls EXCEPT ![i] = Append(@, Call(fn, out))]
    /\ UNCHANGED fut

\* the invocation returns record; its future is done
Return(i, record) ==
    /\ w' = [w EXCEPT ![i] = Returned]
    /\ fut' = [fut EXCEPT ![i] = Ret(record)]

\* Caught with the failure taking the other invocations down: those not yet
\* finished are cancelled
CaughtCancelsSiblings(i, fn, out) ==
    /\ w' = [j \in Indices |-> IF j = i \/ fut[j] = None THEN Returned ELSE w[j]]
    /\ fut' = [j \in Indices |->
                 IF j = i THEN Ret(ErrorRecord(w[i].keyword, out.msg))
                 ELSE IF fut[j] = None THEN Ret(ErrorRecord(w[j].keyword, <<"cancelled">>))
                 ELSE fut[j]]
    /\ calls' = [calls EXCEPT ![i] = Append(@, Call(fn, out))]

\* Caught with the outer except missing: the exception leaves the invocation
Propagated(i, fn, out) ==
    /\ w' = [w EXCEPT ![i] = Returned]
    /\ fut' = [fut EXCEPT ![i] = out]
    /\ calls' = [calls EXCEPT ![i] = Append(@, Call(fn, out))]

\* "except Exception as exc" of the outer try
Caught(i, fn, out) ==
    /\ Return(i, ErrorRecord(w[i].keyword, out.msg))
    /\ calls' = [calls EXCEPT ![i] = Append(@, Call(fn, out))]

Running == {j \in Indices : w[j].pc \notin {"queued", "done"}}

\* Start with the keyword tested before it is stripped
StartWithoutStrip(i) ==
    /\ main \in {"collect", "direct"}
    /\ w[i].pc = "queued"
    /\ \A j \in Indices : j < i => w[j].pc # "queued"
    /\ Cardinality(Running) < worker_count
    /\ IF w[i].keyword = << >>
       THEN Return(i, ErrorRecord(<< >>, <<"keyword is empty">>))
       ELSE /\ w' = [w EXCEPT ![i] = [@ EXCEPT !.pc = "copy", !.keyword = Strip(@)]]
            /\ UNCHANGED fut
    /\ UNCHANGED <<cfg, request, main, keywords, worker_count, results, collected,
                   calls, services, cos_client, response>>

\* Start with a thread for every work item, whatever max_workers is
StartUnbounded(i) ==
    /\ main \in {"collect", "direct"}
    /\ w[i].pc = "queued"
    /\ \A j \in Indices : j < i => w[j].pc # "queued"
    /\ LET keyword == Strip(w[i].keyword)
       IN  IF keyword = << >>
           THEN Return(i, ErrorRecord(<< >>, <<"keyword is empty">>))
           ELSE /\ w' = [w EXCEPT ![i] = [@ EXCEPT !.pc = "copy", !.keyword = keyword]]
                /\ UNCHANGED fut
    /\ UNCHANGED <<cfg, request, main, keywords, worker_count, results, collected,
                   calls, services, cos_client, response>>

\* a pool thread takes the oldest queued work item and enters
\* _generate_single_video: "关键词为空"
Start(i) ==
    /\ main \in {"collect", "direct"}
    /\ w[i].pc = "queued"
    /\ \A j \in Indices : j < i => w[j].pc # "queued"
    /\ Cardinality(Running) < worker_count
    /\ LET keyword == Strip(w[i].keyword)
       IN  IF keyword = << >>
           THEN Return(i, ErrorRecord(<< >>, <<"keyword is empty">>))
           ELSE /\ w' = [w EXCEPT ![i] = [@ EXCEPT !.pc = "copy", !.keyword = keyword]]
                /\ UNCHANGED fut
    /\ UNCHANGED <<cfg, request, main, keywords, worker_count, results, collected,
                   calls, services, cos_client, response>>

GenerateCopy(i) ==
    /\ w[i].pc = "copy"
    /\ \E resp \in services.text :
         LET out == _generate_copy(w[i].keyword, resp)
         IN  IF out.raised THEN Caught(i, "_generate_copy", out)
             ELSE Continue(i, "_generate_copy", out,
                           [w[i] EXCEPT !.pc = "submit", !.copy_text = out.val])
    /\ UNCHANGED <<cfg, request, main, keywords, worker_count, results, collected,
                   services, cos_client, response>>

\* the inner try: SensitiveContentError goes to the rewrite
\* SubmitVideoTask with "except Exception" in place of
\* "except SensitiveContentError": any failure leads to the rewrite
SubmitRetryingOnAnyError(i) ==
    /\ w[i].pc = "submit"
    /\ \E resp \in services.submit :
         LET out == _submit_video_task(w[i].copy_text, resp)
         IN  IF out.raised
             THEN Continue(i, "_submit_video_task", out, [w[i] EXCEPT !.pc = "rewrite"])
             ELSE Continue(i, "_submit_video_task", out,
                           [w[i] EXCEPT !.pc = "poll", !.task_id = out.val,
                                        !.used_safe_fallback = FALSE])
    /\ UNCHANGED <<cfg, request, main, keywords, worker_count, results, collected,
                   services, cos_client, response>>

SubmitVideoTask(i) ==
    /\ w[i].pc = "submit"
    /\ \E resp \in services.submit :
         LET out == _submit_video_task(w[i].copy_text, resp)
         IN  /\ calls' = [calls EXCEPT ![i] = Append(@, SubmitCall(w[i].copy_text, resp, out))]
             /\ IF out.raised /\ out.type = "SensitiveContentError"
                THEN /\ w' = [w EXCEPT ![i] = [@ EXCEPT !.pc = "rewrite"]]
                     /\ UNCHANGED fut
                ELSE IF out.raised THEN Return(i, ErrorRecord(w[i].keyword, out.msg))
                ELSE /\ w' = [w EXCEPT ![i] = [@ EXCEPT !.pc = "poll", !.task_id = out.val,
                                                        !.used_safe_fallback = FALSE]]
                     /\ UNCHANGED fut
    /\ UNCHANGED <<cfg, request, main, keywords, worker_count, results, collected,
                   services, cos_client, response>>

\* the except branch: the rewrite, ...
RewriteCopy(i) ==
    /\ w[i].pc = "rewrite"
    /\ \E resp \in services.text :
         LET out == _rewrite_copy_for_safety(w[i].keyword, w[i].copy_text, resp)
         IN  IF out.raised THEN Caught(i, "_rewrite_copy_for_safety", out)
             ELSE Continue(i, "_rewrite_copy_for_safety", out,
                           [w[i] EXCEPT !.pc = "resubmit", !.copy_text = out.val])
    /\ UNCHANGED <<cfg, request, main, keywords, worker_count, results, collected,
                   services, cos_client, response>>

\* ResubmitVideoTask in a retry loop: a second rejection rewrites again
ResubmitRetrying(i) ==
    /\ w[i].pc = "resubmit"
    /\ \E resp \in services.submit :
         LET out == _submit_video_task(w[i].copy_text, resp)
         IN  IF out.raised /\ out.type = "SensitiveContentError"
             THEN Continue(i, "_submit_video_task", out, [w[i] EXCEPT !.pc = "rewrite"])
             ELSE IF out.raised THEN Caught(i, "_submit_video_task", out)
             ELSE Continue(i, "_submit_video_task", out,
                           [w[i] EXCEPT !.pc = "poll", !.task_id = out.val,
                                        !.used_safe_fallback = TRUE])
    /\ UNCHANGED <<cfg, request, main, keywords, worker_count, results, collected,
                   services, cos_client, response>>

\* ResubmitVideoTask without "used_safe_fallback = True"
ResubmitWithoutFlag(i) ==
    /\ w[i].pc = "resubmit"
    /\ \E resp \in services.submit :
         LET out == _submit_video_task(w[i].copy_text, resp)
         IN  IF out.raised THEN Caught(i, "_submit_video_task", out)
             ELSE Continue(i, "_submit_video_task", out,
                           [w[i] EXCEPT !.pc = "poll", !.task_id = out.val])
    /\ UNCHANGED <<cfg, request, main, keywords, worker_count, results, collected,
                   services, cos_client, response>>

\* ResubmitVideoTask outside the outer try: its exception leaves the run
ResubmitEscaping(i) ==
    /\ w[i].pc = "resubmit"
    /\ \E resp \in services.submit :
         LET out == _submit_video_task(w[i].copy_text, resp)
         IN  /\ calls' = [calls EXCEPT ![i] = Append(@, SubmitCall(w[i].copy_text, resp, out))]
             /\ IF out.raised
                THEN /\ w' = [w EXCEPT ![i] = Returned]
                     /\ fut' = [fut EXCEPT ![i] = out]
                ELSE /\ w' = [w EXCEPT ![i] = [@ EXCEPT !.pc = "poll", !.task_id = out.val,
                                                        !.used_safe_fallback = TRUE]]
                     /\ UNCHANGED fut
    /\ UNCHANGED <<cfg, request, main, keywords, worker_count, results, collected,
                   services, cos_client, response>>

\* ... and the second submit, whose exceptions all reach the outer except
ResubmitVideoTask(i) ==
    /\ w[i].pc = "resubmit"
    /\ \E resp \in services.submit :
         LET out == _submit_video_task(w[i].copy_text, resp)
         IN  /\ calls' = [calls EXCEPT ![i] = Append(@, SubmitCall(w[i].copy_text, resp, out))]
             /\ IF out.raised THEN Return(i, ErrorRecord(w[i].keyword, out.msg))
                ELSE /\ w' = [w EXCEPT ![i] = [@ EXCEPT !.pc = "poll", !.task_id = out.val,
                                                        !.used_safe_fallback = TRUE]]
                     /\ UNCHANGED fut
    /\ UNCHANGED <<cfg, request, main, keywords, worker_count, results, collected,
                   services, cos_client, response>>

\* _wait_for_video_url: one pass of the loop, a query and then the sleep
Poll(i) ==
    /\ w[i].pc = "poll"
    /\ w[i].attempts < POLL_MAX_ATTEMPTS
    /\ \E resp \in services.query :
         LET out == _query_video_task(w[i].task_id, resp)
             decision == PollDecision(out.val)
         IN  IF out.raised THEN Caught(i, "_query_video_task", out)
             ELSE IF decision.do = "raise"
             THEN /\ Return(i, ErrorRecord(w[i].keyword,
                                           <<"video generation failed: ", out.val.payload>>))
                  /\ calls' = [calls EXCEPT ![i] = Append(@, Call("_query_video_task", out))]
             ELSE IF decision.do = "return"
             THEN Continue(i, "_query_video_task", out,
                           [w[i] EXCEPT !.pc = "upload", !.source_video_url = decision.url])
             ELSE Continue(i, "_query_video_task", out,
                           [w[i] EXCEPT !.attempts = @ + 1])
    /\ UNCHANGED <<cfg, request, main, keywords, worker_count, results, collected,
                   services, cos_client, response>>

\* PollTimeout without the raise: the loop over, the invocation stays where it
\* is, waiting for the task
PollTimeoutWaiting(i) ==
    /\ w[i].pc = "poll"
    /\ w[i].attempts >= POLL_MAX_ATTEMPTS
    /\ UNCHANGED vars

\* PollTimeout with the loop given one pass too few
PollTimeoutEarly(i) ==
    /\ w[i].pc = "poll"
    /\ w[i].attempts >= POLL_MAX_ATTEMPTS - 1
    /\ Return(i, ErrorRecord(w[i].keyword, <<"video generation timed out, retry later">>))
    /\ UNCHANGED <<cfg, request, main, keywords, worker_count, results, collected,
                   calls, services, cos_client, response>>

\* _wait_for_video_url: the loop is over, "视频生成超时，请稍后重试"
PollTimeout(i) ==
    /\ w[i].pc = "poll"
    /\ w[i].attempts >= POLL_MAX_ATTEMPTS
    /\ Return(i, ErrorRecord(w[i].keyword, <<"video generation timed out, retry later">>))
    /\ UNCHANGED <<cfg, request, main, keywords, worker_count, results, collected,
                   calls, services, cos_client, response>>

\* the history entry of an _upload_video_to_cos that got to the storage: the
\* key it built and whether its _get_client assigned the global
UploadCall(key, built, out) ==
    [fn |-> "_upload_video_to_cos", arg |-> [key |-> key, built |-> built], out |-> out]

\* _upload_video_to_cos up to the test of the global _cos_client in
\* _get_client: the download into the temporary file and the storage key
Upload(i) ==
    /\ w[i].pc = "upload"
    /\ \E dl \in services.download, stamp \in services.stamp :
         IF ReachesCos(dl)
         THEN /\ w' = [w EXCEPT ![i] = [@ EXCEPT !.pc = "cos", !.download = dl,
                                                 !.key = StorageKey(w[i].keyword, stamp),
                                                 !.client = cos_client]]
              /\ UNCHANGED <<fut, calls>>
         ELSE LET out == _upload_video_to_cos(w[i].source_video_url, w[i].keyword,
                                              dl, cos_client, None)
              IN  IF out.raised THEN Caught(i, "_upload_video_to_cos", out)
                  ELSE Continue(i, "_upload_video_to_cos", out,
                                [w[i] EXCEPT !.pc = "probe", !.cos_video_url = out.val])
    /\ UNCHANGED <<cfg, request, main, keywords, worker_count, results, collected,
                   services, cos_client, response>>

\* the rest of upload_file_to_cos: _get_client builds the client and assigns
\* the global when its test found it unset, then the bucket test and the put
CosPut(i) ==
    /\ w[i].pc = "cos"
    /\ cos_client' = (cos_client \/ BuildsClient(w[i].client))
    /\ \E put \in services.put :
         LET out == _upload_video_to_cos(w[i].source_video_url, w[i].keyword,
                                         w[i].download, w[i].client, put)
         IN  /\ w' = [w EXCEPT ![i] = [@ EXCEPT !.pc = "probe", !.cos_video_url = out.val,
                                                 !.download = None, !.key = << >>,
                                                 !.client = FALSE]]
             /\ calls' = [calls EXCEPT ![i] =
                            Append(@, UploadCall(w[i].key, BuildsClient(w[i].client), out))]
             /\ UNCHANGED fut
    /\ UNCHANGED <<cfg, request, main, keywords, worker_count, results, collected,
                   services, response>>

\* Probe with the size read on the provider's URL whatever the upload returned
ProbeOnSource(i) ==
    /\ w[i].pc = "probe"
    /\ \E head \in services.head, rng \in services.range, stream \in services.stream :
         LET final_video_url == IF w[i].cos_video_url # << >> THEN w[i].cos_video_url
                                ELSE w[i].source_video_url
             out == _head_content_length(w[i].source_video_url, head, rng, stream)
         IN  /\ Return(i, SuccessRecord(w[i], final_video_url, out.val))
             /\ calls' = [calls EXCEPT ![i] =
                            Append(@, ProbeCall(w[i].source_video_url, head, rng, stream, out))]
    /\ UNCHANGED <<cfg, request, main, keywords, worker_count, results, collected,
                   services, cos_client, response>>

\* final_video_url = cos_video_url or source_video_url, the size probe and the
\* result record
Probe(i) ==
    /\ w[i].pc = "probe"
    /\ \E head \in services.head, rng \in services.range, stream \in services.stream :
         LET final_video_url == IF w[i].cos_video_url # << >> THEN w[i].cos_video_url
                                ELSE w[i].source_video_url
             out == _head_content_length(final_video_url, head, rng, stream)
         IN  /\ IF out.raised THEN Return(i, ErrorRecord(w[i].keyword, out.msg))
                ELSE Return(i, SuccessRecord(w[i], final_video_url, out.val))
             /\ calls' = [calls EXCEPT ![i] = Append(@, ProbeCall(final_video_url, head, rng, stream, out))]
    /\ UNCHANGED <<cfg, request, main, keywords, worker_count, results, collected,
                   services, cos_client, response>>

\* _generate_single_video as a function of the keyword and of the outcomes,
\* in order, of the calls it makes
OutcomeAt(outs, p) ==
    IF p <= Len(outs) THEN outs[p] ELSE Raise("Missing", <<"no such call">>)

\* the loop of _wait_for_video_url from its n-th pass, the pass reading outs[p]
RECURSIVE _wait_for_video_url(_, _, _)
_wait_for_video_url(outs, p, n) ==
    IF n >= POLL_MAX_ATTEMPTS
    THEN [raised |-> TRUE, msg |-> <<"video generation timed out, retry later">>,
          url |-> << >>, next |-> p]
    ELSE LET out == OutcomeAt(outs, p)
         IN  IF out.raised
             THEN [raised |-> TRUE, msg |-> out.msg, url |-> << >>, next |-> p]
             ELSE IF PollDecision(out.val).do = "raise"
             THEN [raised |-> TRUE, msg |-> <<"video generation failed: ", out.val.payload>>,
                   url |-> << >>, next |-> p]
             ELSE IF PollDecision(out.val).do = "return"
             THEN [raised |-> FALSE, msg |-> << >>, url |-> PollDecision(out.val).url,
                   next |-> p + 1]
             ELSE _wait_for_video_url(outs, p + 1, n + 1)

_generate_single_video(keyword0, outs) ==
    LET keyword == Strip(keyword0)
        copied == OutcomeAt(outs, 1)
        first == OutcomeAt(outs, 2)
        retry == first.raised /\ first.type = "SensitiveContentError"
        rewritten == OutcomeAt(outs, 3)
        second == OutcomeAt(outs, 4)
        waited == _wait_for_video_url(outs, IF retry THEN 5 ELSE 3, 0)
        uploaded == OutcomeAt(outs, waited.next)
        probed == OutcomeAt(outs, waited.next + 1)
        l == [Locals(keyword) EXCEPT
                !.copy_text = IF retry THEN rewritten.val ELSE copied.val,
                !.task_id = IF retry THEN second.val ELSE first.val,
                !.used_safe_fallback = retry,
                !.source_video_url = waited.url,
                !.cos_video_url = uploaded.val]
    IN  IF keyword = << >> THEN ErrorRecord(<< >>, <<"keyword is empty">>)
        ELSE IF copied.raised THEN ErrorRecord(keyword, copied.msg)
        ELSE IF first.raised /\ ~retry THEN ErrorRecord(keyword, first.msg)
        ELSE IF retry /\ rewritten.raised THEN ErrorRecord(keyword, rewritten.msg)
        ELSE IF retry /\ second.raised THEN ErrorRecord(keyword, second.msg)
        ELSE IF waited.raised THEN ErrorRecord(keyword, waited.msg)
        ELSE IF uploaded.raised THEN ErrorRecord(keyword, uploaded.msg)
        ELSE IF probed.raised THEN ErrorRecord(keyword, probed.msg)
        ELSE SuccessRecord(l, IF uploaded.val # << >> THEN uploaded.val ELSE waited.url,
                           probed.val)

---------------------------------------------------------------------------
(* auto_publish *)

\* NormalizeInto without "word not in keywords": repeats are kept
RECURSIVE NormalizeKeepingRepeats(_, _)
NormalizeKeepingRepeats(acc, raw_keywords) ==
    IF raw_keywords = << >> THEN acc
    ELSE LET word == Strip(Head(raw_keywords))
         IN  IF word # << >>
             THEN NormalizeKeepingRepeats(Append(acc, word), Tail(raw_keywords))
             ELSE NormalizeKeepingRepeats(acc, Tail(raw_keywords))

\* the loop over raw_keywords: trimmed, blanks and repeats dropped
RECURSIVE NormalizeInto(_, _)
NormalizeInto(acc, raw_keywords) ==
    IF raw_keywords = << >> THEN acc
    ELSE LET word == Strip(Head(raw_keywords))
         IN  IF word # << >> /\ ~In(word, acc)
             THEN NormalizeInto(Append(acc, word), Tail(raw_keywords))
             ELSE NormalizeInto(acc, Tail(raw_keywords))

\* the keywords of the request, before the hot-keyword fallback
RequestKeywords(req) ==
    IF req.has_list THEN NormalizeInto(<< >>, req.keywords)
    ELSE LET single == Strip(req.keyword)
         IN  IF single # << >> THEN <<single>> ELSE << >>

\* list[:n] of Python, n of either sign
Slice(list, n) ==
    IF n >= 0 THEN SubSeq(list, 1, Min(Len(list), n))
    ELSE SubSeq(list, 1, IF Len(list) + n > 0 THEN Len(list) + n ELSE 0)

WorkerCap == 5

Reply(status, body) == [status |-> status, body |-> body]

\* the results list, the pool and future_map for the keywords kws
Dispatch(kws) ==
    /\ keywords' = kws
    /\ results' = [i \in 1..Len(kws) |-> None]
    /\ worker_count' = Min(WorkerCap, Len(kws))
    /\ IF Min(WorkerCap, Len(kws)) <= 0
       THEN \* ThreadPoolExecutor raises ValueError: max_workers must be greater than 0
            /\ main' = "done"
            /\ response' = Reply(500, [msg |-> "ValueError"])
            /\ UNCHANGED <<w, fut, calls>>
       ELSE /\ main' = "collect"
            /\ w' = [i \in 1..Len(kws) |-> Locals(kws[i])]
            /\ fut' = [i \in 1..Len(kws) |-> None]
            /\ calls' = [i \in 1..Len(kws) |-> << >>]
            /\ UNCHANGED response

\* auto_publish up to the submission of the work items; "未登录"
Receive ==
    /\ main = "start"
    /\ IF ~request.authenticated
       THEN /\ main' = "done"
            /\ response' = Reply(401, [msg |-> "not logged in"])
            /\ UNCHANGED <<keywords, worker_count, results, fut, w, calls>>
       ELSE IF RequestKeywords(request) # << >>
       THEN Dispatch(Slice(RequestKeywords(request), cfg.MAX_KEYWORDS_PER_BATCH))
       ELSE \E hot \in HotResponses :
              LET out == _fetch_hot_keyword(hot)
              IN  IF out.raised
                  THEN /\ main' = "done"
                       /\ response' = Reply(502, [msg |-> out.msg])
                       /\ UNCHANGED <<keywords, worker_count, results, fut, w, calls>>
                  ELSE Dispatch(Slice(<<out.val>>, cfg.MAX_KEYWORDS_PER_BATCH))
    /\ UNCHANGED <<cfg, request, collected, services, cos_client>>

\* Collect with the results stored in completion order (results.append)
CollectInCompletionOrder(idx) ==
    /\ main = "collect"
    /\ fut[idx] # None
    /\ ~In(idx, collected)
    /\ results' = [results EXCEPT ![Len(collected) + 1] =
                     IF fut[idx].raised THEN ErrorRecord(keywords[idx], fut[idx].msg)
                     ELSE fut[idx].val]
    /\ collected' = Append(collected, idx)
    /\ UNCHANGED <<cfg, request, main, keywords, worker_count, fut, w, calls,
                   services, cos_client, response>>

\* the loop over as_completed(future_map): results[idx] = future.result()
Collect(idx) ==
    /\ main = "collect"
    /\ fut[idx] # None
    /\ results[idx] = None
    /\ results' = [results EXCEPT ![idx] =
                     IF fut[idx].raised THEN ErrorRecord(keywords[idx], fut[idx].msg)
                     ELSE fut[idx].val]
    /\ collected' = Append(collected, idx)
    /\ UNCHANGED <<cfg, request, main, keywords, worker_count, fut, w, calls,
                   services, cos_client, response>>

HasError(r) == "error" \in DOMAIN r /\ r.error # << >>

\* Respond without the wait for the futures: the response is built as soon as
\* the work items are submitted
RespondWithoutWaiting ==
    /\ main = "collect"
    /\ main' = "done"
    /\ response' =
         Reply(200, [count |-> Len(results),
                     ok_count |-> Cardinality({idx \in DOMAIN results :
                                                  ~HasError(results[idx])}),
                     results |-> results])
    /\ UNCHANGED <<cfg, request, keywords, worker_count, results, collected, fut,
                   w, calls, services, cos_client>>

\* ok_count and the response, once every future has been collected
Respond ==
    /\ main = "collect"
    /\ \A idx \in DOMAIN results : results[idx] # None
    /\ main' = "done"
    /\ response' =
         Reply(200, [count |-> Len(results),
                     ok_count |-> Cardinality({idx \in DOMAIN results :
                                                  ~HasError(results[idx])}),
                     results |-> results])
    /\ UNCHANGED <<cfg, request, keywords, worker_count, results, collected, fut,
                   w, calls, services, cos_client>>

---------------------------------------------------------------------------
(* Specifications *)

\* a request to POST /auto-publish/ under a configuration
Init ==
    /\ cfg \in BatchConfigs
    /\ request \in Requests
    /\ services = BatchServices
    /\ main = "start"
    /\ keywords = << >>
    /\ worker_count = 0
    /\ results = << >>
    /\ collected = << >>
    /\ fut = << >>
    /\ w = << >>
    /\ calls = << >>
    /\ cos_client = FALSE
    /\ response = None

Next ==
    \/ Receive
    \/ \E i \in Indices : Start(i)
    \/ \E i \in Indices : GenerateCopy(i)
    \/ \E i \in Indices : SubmitVideoTask(i)
    \/ \E i \in Indices : RewriteCopy(i)
    \/ \E i \in Indices : ResubmitVideoTask(i)
    \/ \E i \in Indices : Poll(i)
    \/ \E i \in Indices : PollTimeout(i)
    \/ \E i \in Indices : Upload(i)
    \/ \E i \in Indices : CosPut(i)
    \/ \E i \in Indices : Probe(i)
    \/ \E idx \in Indices : Collect(idx)
    \/ Respond

Spec == Init /\ [][Next]_vars

\* the steps of the i-th invocation once its thread has it
RunOne(i) ==
    /\ i \in Indices
    /\ \/ GenerateCopy(i) \/ SubmitVideoTask(i) \/ RewriteCopy(i) \/ ResubmitVideoTask(i)
       \/ Poll(i) \/ PollTimeout(i) \/ Upload(i) \/ CosPut(i) \/ Probe(i)

\* every request made has a timeout and so returns, a pool thread that is free
\* takes the next work item, and the request thread goes on when it can
Fairness ==
    /\ WF_vars(Receive)
    /\ \A i \in 1..MaxRaw : WF_vars(i \in Indices /\ Start(i))
    /\ \A i \in 1..MaxRaw : WF_vars(RunOne(i))
    /\ WF_vars(\E idx \in Indices : Collect(idx))
    /\ WF_vars(Respond)

\* the requests that lead to a batch of one, of two, and to the hotspot API
LiveRequests ==
    {r \in Requests :
        /\ r.authenticated
        /\ r.has_list => r.keywords \in {<< <<"a">> >>, << <<"a">>, <<"b">> >>}
        /\ ~r.has_list => r.keyword = <<" ">>}

InitLive ==
    /\ cfg = DefaultCfg
    /\ request \in LiveRequests
    /\ services = BatchServices
    /\ main = "start"
    /\ keywords = << >>
    /\ worker_count = 0
    /\ results = << >>
    /\ collected = << >>
    /\ fut = << >>
    /\ w = << >>
    /\ calls = << >>
    /\ cos_client = FALSE
    /\ response = None

SpecLive == InitLive /\ [][Next]_vars /\ Fairness

\* a keyword one character longer than a file name may be, with a space as
\* its last character but one
LongKeyword == [k \in 1..MaxNameLen + 1 |-> IF k = MaxNameLen THEN " " ELSE "a"]

\* the strings _generate_single_video is called on: empty, blank, plain, to
\* trim, and with a character no file name may hold
SingleKeywords == {<< >>, <<" ">>, <<"a">>, <<"a", " ">>, <<"a", "/", "b">>}

\* keywords that put _safe_filename to work: a run of whitespace and a
\* character to replace, and one too long for a file name
NameKeywords ==
    SingleKeywords \cup {<<" ", "a", " ", " ", "?", " ">>, LongKeyword}

\* one call of _generate_single_video(keyword), on any string, under any
\* configuration and with every answer of the services
InitOne ==
    /\ cfg \in AllConfigs
    /\ request = None
    /\ services = AllServices
    /\ main = "direct"
    /\ \E keyword \in SingleKeywords :
         /\ keywords = <<keyword>>
         /\ w = <<Locals(keyword)>>
    /\ worker_count = 1
    /\ results = <<None>>
    /\ collected = << >>
    /\ fut = <<None>>
    /\ calls = << <<>> >>
    /\ cos_client \in {FALSE, cfg.COS_CREDENTIALS}
    /\ response = None

NextOne ==
    \/ \E i \in Indices : Start(i)
    \/ \E i \in Indices : GenerateCopy(i)
    \/ \E i \in Indices : SubmitVideoTask(i)
    \/ \E i \in Indices : RewriteCopy(i)
    \/ \E i \in Indices : ResubmitVideoTask(i)
    \/ \E i \in Indices : Poll(i)
    \/ \E i \in Indices : PollTimeout(i)
    \/ \E i \in Indices : Upload(i)
    \/ \E i \in Indices : CosPut(i)
    \/ \E i \in Indices : Probe(i)

SpecOne == InitOne /\ [][NextOne]_vars

\* one call of _generate_single_video on a keyword of NameKeywords, with the
\* configurations and the answers of a batch
InitName ==
    /\ cfg \in BatchConfigs
    /\ request = None
    /\ services = BatchServices
    /\ main = "direct"
    /\ \E keyword \in NameKeywords :
         /\ keywords = <<keyword>>
         /\ w = <<Locals(keyword)>>
    /\ worker_count = 1
    /\ results = <<None>>
    /\ collected = << >>
    /\ fut = <<None>>
    /\ calls = << <<>> >>
    /\ cos_client = FALSE
    /\ response = None

SpecName == InitName /\ [][NextOne]_vars

\* a request with more keywords than the pool has threads, under batch limits
\* around the pool's cap; the text model's key is unset, so that every
\* invocation ends with its first call
PoolKeywords == << <<"a">>, <<"b">>, <<"c">>, <<"d">>, <<"e">>, <<"f">> >>

PoolConfigs ==
    {[DefaultCfg EXCEPT !.DOUBAO_API_KEY = "", !.MAX_KEYWORDS_PER_BATCH = m] :
        m \in {WorkerCap - 1, WorkerCap, WorkerCap + 1, WorkerCap + 2}}

InitPool ==
    /\ cfg \in PoolConfigs
    /\ request = [authenticated |-> TRUE, has_list |-> TRUE,
                  keywords |-> PoolKeywords, keyword |-> << >>]
    /\ services = BatchServices
    /\ main = "start"
    /\ keywords = << >>
    /\ worker_count = 0
    /\ results = << >>
    /\ collected = << >>
    /\ fut = << >>
    /\ w = << >>
    /\ calls = << >>
    /\ cos_client = FALSE
    /\ response = None

NextPool ==
    \/ Receive
    \/ \E i \in Indices : Start(i)
    \/ \E i \in Indices : GenerateCopy(i)
    \/ \E idx \in Indices : Collect(idx)
    \/ Respond

SpecPool == InitPool /\ [][NextPool]_vars

---------------------------------------------------------------------------
(* Properties *)

\* how many times an invocation called fn
RECURSIVE Count(_, _)
Count(cs, fn) ==
    IF cs = << >> THEN 0
    ELSE (IF Head(cs).fn = fn THEN 1 ELSE 0) + Count(Tail(cs), fn)

Finished(i) == fut[i] # None

Answered == main = "done" /\ response.status = 200

\* a list of keywords, each non-blank and without outer whitespace
Valid(ks) ==
    \A i \in 1..Len(ks) : ks[i] # << >> /\ Head(ks[i]) # " " /\ ks[i][Len(ks[i])] # " "

\* a list of pairwise distinct keywords
Clean(ks) == Valid(ks) /\ \A i, j \in 1..Len(ks) : i # j => ks[i] # ks[j]

\* C1 as stated: for every non-empty list of keywords (non-blank, trimmed
\* strings) no longer than the batch limit, the results list has the length of
\* the input and results[i].keyword is the i-th input keyword.
C1_AsStated ==
    (/\ main = "done"
     /\ request.authenticated /\ request.has_list
     /\ request.keywords # << >> /\ Valid(request.keywords)
     /\ Len(request.keywords) <= cfg.MAX_KEYWORDS_PER_BATCH)
    => /\ response.status = 200
       /\ Len(response.body.results) = Len(request.keywords)
       /\ \A i \in 1..Len(request.keywords) :
            response.body.results[i].keyword = request.keywords[i]

\* C1, amended: for every non-empty list of pairwise distinct, non-blank,
\* trimmed keywords no longer than the batch limit, auto_publish answers with a
\* results list of the input's length whose i-th record is about the i-th
\* input keyword, in whatever order the workers finish and are collected; and
\* at no moment does a slot hold a record about another keyword.
C1_ResultsAlignWithInput ==
    /\ \A i \in DOMAIN results : results[i] # None => results[i].keyword = keywords[i]
    /\ (/\ main = "done"
        /\ request.authenticated /\ request.has_list
        /\ request.keywords # << >> /\ Clean(request.keywords)
        /\ Len(request.keywords) <= cfg.MAX_KEYWORDS_PER_BATCH)
       => /\ response.status = 200
          /\ Len(response.body.results) = Len(request.keywords)
          /\ \A i \in 1..Len(request.keywords) :
               response.body.results[i].keyword = request.keywords[i]

\* C1 witness: a clean list of two keywords answered, the second keyword's
\* worker collected before the first's
C1_Witness ==
    /\ Answered
    /\ request.keywords = << <<"a">>, <<"b">> >>
    /\ collected = <<2, 1>>
    /\ Len(response.body.results) = 2

IsSuccess(r) == "error" \notin DOMAIN r

\* C2: in one run of _generate_single_video, _rewrite_copy_for_safety is called
\* at most once and _submit_video_task at most twice, whatever the answers.
C2_AtMostOneRetry ==
    \A i \in Indices :
        /\ Count(calls[i], "_rewrite_copy_for_safety") <= 1
        /\ Count(calls[i], "_submit_video_task") <= 2

\* C2 witness: the retry submit was rejected as sensitive too, and the run
\* ended there, after one rewrite and two submits
C2_Witness ==
    \E i \in Indices :
        /\ Finished(i)
        /\ Count(calls[i], "_rewrite_copy_for_safety") = 1
        /\ Count(calls[i], "_submit_video_task") = 2
        /\ calls[i][Len(calls[i])].out.type = "SensitiveContentError"

\* the retry path: a second submit was made
RetryTaken(i) == Count(calls[i], "_submit_video_task") = 2

\* C3 as stated: for every keyword processed, the result's used_safe_fallback
\* is true if and only if the retry path was taken.
C3_AsStated ==
    \A i \in Indices :
        Finished(i) =>
            (("used_safe_fallback" \in DOMAIN fut[i].val /\ fut[i].val.used_safe_fallback)
             <=> RetryTaken(i))

\* C3, amended: for every keyword whose result is a success record,
\* used_safe_fallback is true if and only if the retry path was taken.
C3_FlagIffRetry ==
    \A i \in Indices :
        (Finished(i) /\ IsSuccess(fut[i].val)) =>
            (fut[i].val.used_safe_fallback <=> RetryTaken(i))

\* C3 witness: a success record reached through the retry path
C3_Witness ==
    \E i \in Indices :
        /\ Finished(i) /\ IsSuccess(fut[i].val)
        /\ fut[i].val.used_safe_fallback
        /\ RetryTaken(i)

\* the first rejection as sensitive content, which the inner except takes
FirstSensitive(i, j) ==
    /\ calls[i][j].fn = "_submit_video_task"
    /\ calls[i][j].out.type = "SensitiveContentError"
    /\ Count(SubSeq(calls[i], 1, j), "_submit_video_task") = 1

\* C4: _generate_single_video never lets an exception out: a call that raised
\* is either the first sensitive-content rejection, or the last call of the
\* run, whose result is then {keyword, error: str(exc)}.
C4_NoExceptionEscapes ==
    \A i \in Indices :
        /\ Finished(i) => ~fut[i].raised
        /\ \A j \in 1..Len(calls[i]) :
             calls[i][j].out.raised =>
                \/ FirstSensitive(i, j)
                \/ /\ Finished(i) /\ j = Len(calls[i])
                   /\ fut[i].val = ErrorRecord(Strip(keywords[i]), calls[i][j].out.msg)

\* C4 witness: the artifact transfer raised and the run returned its message
C4_Witness ==
    \E i \in Indices :
        /\ Finished(i) /\ calls[i] # << >>
        /\ calls[i][Len(calls[i])].fn = "_upload_video_to_cos"
        /\ calls[i][Len(calls[i])].out.raised
        /\ fut[i].val = ErrorRecord(Strip(keywords[i]), <<"connection error">>)

SuccessFields ==
    {"keyword", "video_title", "file_name", "copy_text", "task_id", "video_url",
     "source_video_url", "video_ratio", "video_resolution", "video_format",
     "video_duration", "video_size_bytes", "video_size_human", "stored_on_cos",
     "used_safe_fallback"}

IsErrorShape(r) == DOMAIN r = {"keyword", "error"} /\ r.error # << >>

IsSuccessShape(r) ==
    /\ DOMAIN r = SuccessFields
    /\ r.keyword # << >> /\ r.video_title # << >> /\ r.file_name # << >>
    /\ r.copy_text # << >> /\ r.task_id # ""
    /\ r.video_url # << >> /\ r.source_video_url # << >>
    /\ r.video_size_bytes >= 0
    /\ r.stored_on_cos \in BOOLEAN /\ r.used_safe_fallback \in BOOLEAN

OneShape(r) == IsErrorShape(r) # IsSuccessShape(r)

\* C5: every record returned by _generate_single_video, stored in results or
\* sent in the response is an error record (keyword and a non-empty error,
\* nothing else) or a success record (every success field, no error), never
\* both and never neither.
C5_ExactlyOneShape ==
    /\ \A i \in Indices :
         /\ (Finished(i) /\ ~fut[i].raised) => OneShape(fut[i].val)
         /\ results[i] # None => OneShape(results[i])
    /\ Answered => \A i \in DOMAIN response.body.results : OneShape(response.body.results[i])

\* C5 witness: a response carrying an error record and a success record
C5_Witness ==
    /\ Answered
    /\ Len(response.body.results) = 2
    /\ IsErrorShape(response.body.results[1])
    /\ IsSuccessShape(response.body.results[2])

Outs(cs) == [j \in 1..Len(cs) |-> cs[j].out]

\* what the i-th keyword's run returns when run on its own with the outcomes
\* its calls had
Alone(i) == _generate_single_video(keywords[i], Outs(calls[i]))

\* C6: in a batch a keyword's failure leaves the others alone: every keyword's
\* record, as returned, as stored and as sent, is the one its own run gives
\* from its own calls; when the response is sent every keyword has run to its
\* end, and a failed keyword's slot holds an error record for that keyword.
C6_SiblingsUnaffected ==
    /\ \A i \in Indices :
         /\ Finished(i) => fut[i] = Ret(Alone(i))
         /\ results[i] # None => results[i] = Alone(i)
    /\ Answered =>
         \A i \in 1..Len(keywords) :
            /\ w[i].pc = "done"
            /\ response.body.results[i] = Alone(i)
            /\ HasError(response.body.results[i]) =>
                 /\ IsErrorShape(response.body.results[i])
                 /\ response.body.results[i].keyword = keywords[i]

\* C6 witness: the second keyword failed and was collected first, the first
\* keyword's run went on to a success record
C6_Witness ==
    /\ Answered
    /\ collected = <<2, 1>>
    /\ IsErrorShape(response.body.results[2])
    /\ IsSuccessShape(response.body.results[1])

\* C7: _rewrite_copy_for_safety never fails: it returns a non-empty copy text
\* whatever the text model does, so after a first rejection as sensitive the
\* second submit is always made.
C7_RewriteNeverFails ==
    \A i \in Indices :
        /\ \A j \in 1..Len(calls[i]) :
             calls[i][j].fn = "_rewrite_copy_for_safety" =>
                ~calls[i][j].out.raised /\ calls[i][j].out.val # << >>
        /\ (Finished(i) /\ \E j \in 1..Len(calls[i]) : FirstSensitive(i, j))
             => RetryTaken(i)

\* C8: a keyword that is empty or blank never reaches the pipeline: the run
\* makes no call and returns {keyword: "", error: "关键词为空"}.
C8_BlankKeywordRejected ==
    \A i \in Indices :
        Strip(keywords[i]) = << >> =>
            /\ calls[i] = << >>
            /\ w[i].pc \in {"queued", "done"}
            /\ w[i].pc = "done" => fut[i] = Ret(ErrorRecord(<< >>, <<"keyword is empty">>))

\* C8 witness: the run on a blank keyword has returned
C8_Witness ==
    \E i \in Indices : keywords[i] = <<" ">> /\ Finished(i)

\* C9: without COS credentials or bucket, _upload_video_to_cos returns "" and
\* does not raise, and the run returns a success record with video_url the
\* provider's URL and stored_on_cos false.
C9_NoCredentialsSoftFail ==
    \A i \in Indices :
        (~cfg.COS_CREDENTIALS \/ cfg.COS_BUCKET = "") =>
            \A j \in 1..Len(calls[i]) :
                calls[i][j].fn = "_upload_video_to_cos" =>
                    /\ ~calls[i][j].out.raised
                    /\ calls[i][j].out.val = << >>
                    /\ Finished(i) =>
                         /\ IsSuccess(fut[i].val)
                         /\ fut[i].val.video_url = fut[i].val.source_video_url
                         /\ ~fut[i].val.stored_on_cos

IsNumber(s) == s # << >> /\ \A k \in 1..Len(s) : s[k] \in DigitChars

\* no strategy of the size probe has anything to offer
AllStrategiesFail(arg) ==
    /\ arg.head.raises \/ ~IsNumber(arg.head.content_length)
    /\ \/ arg.range.raises
       \/ /\ ~IsNumber(arg.range.content_length)
          /\ ~\E k \in 1..Len(arg.range.content_range) :
                /\ arg.range.content_range[k] = "/"
                /\ IsNumber(Strip(SubSeq(arg.range.content_range, k + 1,
                                         Len(arg.range.content_range))))
    /\ arg.stream.raises \/ arg.stream.length = 0

\* C10: _head_content_length never raises and never returns a negative size,
\* whatever the three requests do; it returns 0 when all three strategies fail;
\* and the run that called it returns a success record carrying that size.
C10_ProbeNeverRaises ==
    \A i \in Indices :
        \A j \in 1..Len(calls[i]) :
            calls[i][j].fn = "_head_content_length" =>
                /\ ~calls[i][j].out.raised
                /\ calls[i][j].out.val >= 0
                /\ AllStrategiesFail(calls[i][j].arg) => calls[i][j].out.val = 0
                /\ Finished(i) /\ IsSuccess(fut[i].val)
                /\ fut[i].val.video_size_bytes = calls[i][j].out.val

\* C10 witness: the HEAD, the ranged GET and the streamed download all raised,
\* and the run returned a success record of size 0
C10_Witness ==
    \E i \in Indices :
        /\ Finished(i) /\ IsSuccess(fut[i].val) /\ calls[i] # << >>
        /\ LET c == calls[i][Len(calls[i])]
           IN  /\ c.fn = "_head_content_length"
               /\ c.arg.head.raises /\ c.arg.range.raises /\ c.arg.stream.raises
               /\ fut[i].val.video_size_bytes = 0

FailedFamily == {"failed", "error", "canceled", "cancelled"}

\* a status query that answered with neither a failed-family status nor a URL
Unresolved(c) ==
    /\ c.fn = "_query_video_task"
    /\ ~c.out.raised
    /\ c.out.val.status_text \notin FailedFamily
    /\ _extract_video_url(c.out.val.payload) = << >>

\* every status query of the i-th run so far was unresolved, and there was one
NeverResolves(i) ==
    /\ Count(calls[i], "_query_video_task") > 0
    /\ \A j \in 1..Len(calls[i]) :
          calls[i][j].fn = "_query_video_task" => Unresolved(calls[i][j])

TimeoutMessage == <<"video generation timed out, retry later">>

\* C11: when the task never yields a failed-family status nor a URL,
\* _wait_for_video_url makes exactly POLL_MAX_ATTEMPTS status queries and then
\* raises the timeout error: the run's result is the error record with the
\* timeout message, without video_url, and neither _upload_video_to_cos nor
\* _head_content_length is called; and a timeout result only ever follows
\* POLL_MAX_ATTEMPTS unresolved queries.
C11_TimeoutAfterMaxAttempts ==
    \A i \in Indices :
        /\ NeverResolves(i) =>
             /\ Count(calls[i], "_query_video_task") <= POLL_MAX_ATTEMPTS
             /\ Count(calls[i], "_upload_video_to_cos") = 0
             /\ Count(calls[i], "_head_content_length") = 0
             /\ Finished(i) =>
                  /\ Count(calls[i], "_query_video_task") = POLL_MAX_ATTEMPTS
                  /\ fut[i] = Ret(ErrorRecord(Strip(keywords[i]), TimeoutMessage))
                  /\ "video_url" \notin DOMAIN fut[i].val
        /\ (Finished(i) /\ ~fut[i].raised /\ HasError(fut[i].val)
              /\ fut[i].val.error = TimeoutMessage) =>
             /\ NeverResolves(i)
             /\ Count(calls[i], "_query_video_task") = POLL_MAX_ATTEMPTS

\* C11 witness: a run ended in the timeout record after POLL_MAX_ATTEMPTS
\* unresolved queries, the last of them reporting success without a video URL
C11_Witness ==
    \E i \in Indices :
        /\ Finished(i) /\ NeverResolves(i)
        /\ fut[i].val = ErrorRecord(Strip(keywords[i]), TimeoutMessage)
        /\ Count(calls[i], "_query_video_task") = POLL_MAX_ATTEMPTS
        /\ calls[i][Len(calls[i])].out.val.status_text = "succeeded"

\* C12: for every request and every value of the batch limit the endpoint ends
\* in one of three outcomes: 401 exactly when the caller is unauthenticated,
\* 502 only when no keyword was supplied (the hot-keyword fetch failed), and
\* otherwise 200 with a results list of error or success records; nothing else,
\* such as an exception while the worker pool is created, is reachable.
C12_ThreeOutcomes ==
    main = "done" =>
        /\ response.status \in {401, 502, 200}
        /\ response.status = 401 <=> ~request.authenticated
        /\ response.status = 502 => RequestKeywords(request) = << >>
        /\ response.status = 200 =>
             /\ "results" \in DOMAIN response.body
             /\ \A i \in DOMAIN response.body.results :
                   OneShape(response.body.results[i])

\* the keywords the hotspot API can give
HotWords == {Strip(h.word) : h \in HotResponses} \ {<< >>}

\* C13: when the request supplies no usable keyword, auto_publish fetches one
\* hot keyword and runs the batch on that one keyword; if the fetch fails it
\* answers 502 and no _generate_single_video invocation and no provider call
\* is made.
C13_HotFallback ==
    (main # "start" /\ request.authenticated /\ RequestKeywords(request) = << >>) =>
        \/ /\ main = "done"
           /\ response.status = 502
           /\ w = << >> /\ calls = << >>
        \/ /\ Len(keywords) = 1 /\ keywords[1] \in HotWords
           /\ Len(w) = 1 /\ Len(results) = 1
           /\ main = "done" =>
                /\ response.status = 200
                /\ Len(response.body.results) = 1
                /\ response.body.results[1].keyword = keywords[1]

\* the first n entries of a list, none when n is not positive
FirstEntries(list, n) == [i \in 1..Min(Len(list), n) |-> list[i]]

\* C14: the keywords dispatched are exactly the first MAX_KEYWORDS_PER_BATCH
\* entries of the normalised keyword list, in order; the number of
\* _generate_single_video invocations and the length of the results list never
\* exceed MAX_KEYWORDS_PER_BATCH.
C14_TruncatedToLimit ==
    main # "start" =>
        /\ (request.authenticated /\ RequestKeywords(request) # << >>) =>
              keywords = FirstEntries(RequestKeywords(request), cfg.MAX_KEYWORDS_PER_BATCH)
        /\ Len(w) > 0 => Len(w) <= cfg.MAX_KEYWORDS_PER_BATCH
        /\ Len(results) > 0 => Len(results) <= cfg.MAX_KEYWORDS_PER_BATCH

\* C15: at every moment of a batch at most min(5, number of keywords)
\* invocations of _generate_single_video are executing, and each keyword of
\* the batch has exactly one invocation, its own; also under a batch limit
\* above 5.
C15_PoolBounded ==
    main \in {"collect", "done"} /\ keywords # << >> =>
        /\ Cardinality(Running) <= Min(5, Len(keywords))
        /\ Len(w) = Len(keywords) /\ Len(fut) = Len(keywords)
        /\ \A i \in Indices :
             /\ w[i].pc # "done" => Strip(w[i].keyword) = Strip(keywords[i])
             /\ Finished(i) => ~fut[i].raised /\ fut[i].val.keyword = Strip(keywords[i])

\* C15 witness: six keywords under a batch limit above 5, five of them running
\* and the sixth waiting for a thread
C15_Witness ==
    /\ main = "collect"
    /\ cfg.MAX_KEYWORDS_PER_BATCH > 5
    /\ Len(keywords) = 6
    /\ Cardinality(Running) = 5
    /\ w[6].pc = "queued"

\* the base name inside a storage key: what stands after the last "/" and
\* before the "-", the random suffix and the ".mp4" that end the key
KeyBaseName(key) ==
    LET slashes == {k \in 1..Len(key) : key[k] = "/"}
        last == CHOOSE k \in slashes : \A m \in slashes : m <= k
    IN  SubSeq(key, last + 1, Len(key) - 3)

\* the storage keys the i-th run built
KeysOf(i) ==
    {calls[i][j].arg.key : j \in {k \in 1..Len(calls[i]) :
        calls[i][k].fn = "_upload_video_to_cos" /\ calls[i][k].arg # None}}

\* C16: _safe_filename gives the same base name for the same keyword wherever
\* and whenever it is called, whatever date and random suffix the storage key
\* gets: video_title and file_name of a result and the base name inside the
\* storage key built for the same keyword agree.
C16_SameNameEverywhere ==
    \A i \in Indices :
        /\ \A key \in KeysOf(i) : KeyBaseName(key) = _safe_filename(keywords[i])
        /\ (Finished(i) /\ IsSuccess(fut[i].val)) =>
             /\ fut[i].val.video_title = _safe_filename(keywords[i])
             /\ fut[i].val.file_name = fut[i].val.video_title \o <<".mp4">>
             /\ \A key \in KeysOf(i) : KeyBaseName(key) = fut[i].val.video_title

\* C16 witness: a keyword with a character to replace, stored under a key with
\* the later date and suffix, and its success record
C16_Witness ==
    \E i \in Indices :
        /\ keywords[i] = <<"a", "/", "b">>
        /\ Finished(i) /\ IsSuccess(fut[i].val)
        /\ fut[i].val.video_title = <<"a", "_", "b">>
        /\ \E key \in KeysOf(i) : key[Len(key) - 1] = "ffffffff"

\* the runs whose _get_client found the global _cos_client unset, built a
\* client and assigned the global
ClientBuilders ==
    {i \in Indices : \E j \in 1..Len(calls[i]) :
        /\ calls[i][j].fn = "_upload_video_to_cos"
        /\ calls[i][j].arg # None
        /\ calls[i][j].arg.built}

\* C17: in a batch no state but the results list is written by more than one
\* keyword's worker, and each slot of the results only for its own keyword: in
\* particular the module-level client of the durable storage is never tested
\* and then assigned by two concurrently running invocations.
C17_NoSharedWrites ==
    /\ Cardinality(ClientBuilders) <= 1
    /\ Cardinality({i \in Indices : w[i].pc = "cos" /\ BuildsClient(w[i].client)}) <= 1
    /\ \A i \in DOMAIN results :
          results[i] # None => results[i].keyword = Strip(keywords[i])

\* what C18 asks of a base name
NameOk(name) ==
    /\ name # << >>
    /\ Len(name) <= 80
    /\ \A k \in 1..Len(name) : name[k] \notin {"/", "\\", ":", "*", "?", "\"", "<", ">", "|"}
    /\ \A k \in 1..Len(name) - 1 : ~(name[k] = " " /\ name[k + 1] = " ")
    /\ name[1] # " " /\ name[Len(name)] # " "

\* C18: _safe_filename returns for every keyword a non-empty name of at most
\* 80 characters, with none of / \ : * ? " < > |, with every run of whitespace
\* collapsed to one space and none at either end, and "hot-video" for an empty
\* or blank keyword.
C18_SafeName ==
    \A i \in Indices :
        /\ Strip(keywords[i]) = << >> =>
              _safe_filename(keywords[i]) = <<"h", "o", "t", "-", "v", "i", "d", "e", "o">>
        /\ (Finished(i) /\ IsSuccess(fut[i].val)) => NameOk(fut[i].val.video_title)

\* the first submit's rejection as sensitive content, the one failure a run
\* goes on after
IsRetryTrigger(c, j) ==
    /\ j = 2 /\ c.fn = "_submit_video_task"
    /\ c.out.raised /\ c.out.type = "SensitiveContentError"

\* whether call d may be the one that follows call c, the j-th of a run
MayFollow(c, d, j) ==
    CASE c.fn = "_generate_copy" -> j = 1 /\ ~c.out.raised /\ d.fn = "_submit_video_task"
      [] c.fn = "_submit_video_task" /\ j = 2 ->
            IF c.out.raised THEN IsRetryTrigger(c, j) /\ d.fn = "_rewrite_copy_for_safety"
            ELSE d.fn = "_query_video_task"
      [] c.fn = "_rewrite_copy_for_safety" ->
            j = 3 /\ ~c.out.raised /\ d.fn = "_submit_video_task"
      [] c.fn = "_submit_video_task" /\ j = 4 -> ~c.out.raised /\ d.fn = "_query_video_task"
      [] c.fn = "_query_video_task" ->
            ~c.out.raised /\ d.fn \in {"_query_video_task", "_upload_video_to_cos"}
      [] c.fn = "_upload_video_to_cos" -> ~c.out.raised /\ d.fn = "_head_content_length"
      [] OTHER -> FALSE

\* C19: the calls of a run come in the order generate copy, submit, (rewrite,
\* submit again), status queries, upload, size probe, and the result record is
\* built last; a call is made only after the one before it returned (the first
\* submit's rejection as sensitive apart), and after any other failure no call
\* follows: the run ends there with an error record.
C19_StepsInOrder ==
    \A i \in Indices :
        /\ calls[i] # << >> => calls[i][1].fn = "_generate_copy"
        /\ \A j \in 1..Len(calls[i]) - 1 : MayFollow(calls[i][j], calls[i][j + 1], j)
        /\ \A j \in 1..Len(calls[i]) :
              (calls[i][j].out.raised /\ ~IsRetryTrigger(calls[i][j], j)) =>
                  /\ j = Len(calls[i])
                  /\ Finished(i) /\ HasError(fut[i].val)
        /\ (Finished(i) /\ IsSuccess(fut[i].val)) =>
              /\ calls[i] # << >>
              /\ calls[i][Len(calls[i])].fn = "_head_content_length"
              /\ ~calls[i][Len(calls[i])].out.raised

\* C19 witness: a run through every step, the retry included, to a success
\* record
C19_Witness ==
    \E i \in Indices :
        /\ Finished(i) /\ IsSuccess(fut[i].val)
        /\ Len(calls[i]) >= 7
        /\ calls[i][3].fn = "_rewrite_copy_for_safety"
        /\ calls[i][Len(calls[i]) - 1].fn = "_upload_video_to_cos"

\* C20: on each poll, a failed-family status raises the generation failure,
\* even when the payload holds a video URL; otherwise a URL that can be
\* extracted is returned at once, whatever the status; otherwise, a
\* succeeded-family status without a URL included, the loop sleeps and polls
\* again, so that a task reporting success without a URL ends in the timeout
\* error.
C20_PollDecision ==
    \A i \in Indices :
        \A j \in 1..Len(calls[i]) :
            (calls[i][j].fn = "_query_video_task" /\ ~calls[i][j].out.raised) =>
                LET queried == calls[i][j].out.val
                    url == _extract_video_url(queried.payload)
                    last == j = Len(calls[i])
                IN  IF queried.status_text \in FailedFamily
                    THEN /\ last /\ Finished(i)
                         /\ fut[i] = Ret(ErrorRecord(Strip(keywords[i]),
                                         <<"video generation failed: ", queried.payload>>))
                    ELSE IF url # << >>
                    THEN /\ ~last => calls[i][j + 1].fn = "_upload_video_to_cos"
                         /\ last => /\ ~Finished(i)
                                    /\ w[i].pc \in {"upload", "cos"}
                                    /\ w[i].source_video_url = url
                         /\ (Finished(i) /\ IsSuccess(fut[i].val)) =>
                               fut[i].val.source_video_url = url
                    ELSE /\ ~last => calls[i][j + 1].fn = "_query_video_task"
                         /\ (last /\ Finished(i)) =>
                               fut[i] = Ret(ErrorRecord(Strip(keywords[i]), TimeoutMessage))

\* C20 witness: every poll reported success with no video URL to extract, and
\* the run ended in the timeout error
C20_Witness ==
    \E i \in Indices :
        /\ Finished(i)
        /\ fut[i].val = ErrorRecord(Strip(keywords[i]), TimeoutMessage)
        /\ \A j \in 1..Len(calls[i]) :
              calls[i][j].fn = "_query_video_task" =>
                 /\ ~calls[i][j].out.raised
                 /\ calls[i][j].out.val.status_text \in {"succeeded", "success", "completed", "done"}

\* the answer that sends _generate_single_video to the rewrite: a POST that
\* was made and answered with a status other than 200 and a body whose error
\* code is exactly SensitiveCode
SensitiveAnswer(c) ==
    /\ c.arg # None
    /\ ~c.arg.resp.raises
    /\ c.arg.resp.status_code # 200
    /\ c.arg.resp.json = "ok"
    /\ c.arg.resp.code = SensitiveCode

\* the rewrite path was entered: the run is about to call
\* _rewrite_copy_for_safety or has called it
RewriteEntered(i) ==
    w[i].pc = "rewrite" \/ Count(calls[i], "_rewrite_copy_for_safety") > 0

\* C21: the rewrite path is entered if and only if the first submit was
\* answered with a status other than 200 and the error code
\* "InputTextSensitiveContentDetected" exactly; any other failure of the first
\* submit (another rejection, an unparseable body, a 200 without task id, no
\* video API key, a transport error) ends the run with an error record
\* carrying its message, and no rewrite call is made.
C21_RewriteIffSensitiveCode ==
    \A i \in Indices :
        /\ Len(calls[i]) < 2 => ~RewriteEntered(i)
        /\ Len(calls[i]) >= 2 =>
             /\ calls[i][2].fn = "_submit_video_task"
             /\ RewriteEntered(i) <=> SensitiveAnswer(calls[i][2])
             /\ (calls[i][2].out.raised /\ ~SensitiveAnswer(calls[i][2])) =>
                  /\ Len(calls[i]) = 2
                  /\ Finished(i)
                  /\ fut[i] = Ret(ErrorRecord(Strip(keywords[i]), calls[i][2].out.msg))

\* C21 witness: the first submit was rejected with another error code, and the
\* run ended there with an error record and without a rewrite
C21_Witness ==
    \E i \in Indices :
        /\ Len(calls[i]) = 2 /\ Finished(i)
        /\ calls[i][2].arg # None
        /\ calls[i][2].arg.resp.status_code = 400
        /\ calls[i][2].arg.resp.code = "InvalidParameter"
        /\ ~IsSuccess(fut[i].val)
        /\ ~RewriteEntered(i)

\* C22: when the submit made with the rewritten copy fails, as sensitive
\* content again or in any other way, the run ends there: it is the last call
\* (no further rewrite or submit, no poll), and the run returns, without
\* raising, the error record with that failure's message.
C22_RetryFailureIsFinal ==
    \A i \in Indices :
        \A j \in 1..Len(calls[i]) :
            (/\ calls[i][j].fn = "_submit_video_task"
             /\ calls[i][j].out.raised
             /\ Count(SubSeq(calls[i], 1, j), "_submit_video_task") = 2) =>
                /\ j = Len(calls[i])
                /\ Count(calls[i], "_rewrite_copy_for_safety") = 1
                /\ Count(calls[i], "_query_video_task") = 0
                /\ Finished(i) /\ ~fut[i].raised
                /\ fut[i].val = ErrorRecord(Strip(keywords[i]), calls[i][j].out.msg)

\* C22 witness: the retry submit got a 200 without task id, and the run
\* returned that message after one rewrite, two submits and no poll
C22_Witness ==
    \E i \in Indices :
        /\ Finished(i) /\ Len(calls[i]) = 4
        /\ calls[i][2].out.type = "SensitiveContentError"
        /\ calls[i][3].fn = "_rewrite_copy_for_safety"
        /\ calls[i][4].fn = "_submit_video_task"
        /\ calls[i][4].out.raised
        /\ fut[i].val = ErrorRecord(Strip(keywords[i]),
                                    <<"video task creation returned no task id">>)

\* C23: in every success record, source_video_url is the URL the last query
\* of _wait_for_video_url gave, stored_on_cos is true exactly when
\* _upload_video_to_cos returned a non-empty URL, video_url is that URL when
\* stored_on_cos is true and source_video_url when it is false, and
\* video_size_bytes is what _head_content_length returned for video_url.
C23_UrlsOfSuccess ==
    \A i \in Indices :
        (Finished(i) /\ IsSuccess(fut[i].val)) =>
            LET r == fut[i].val
                n == Len(calls[i])
                waited == calls[i][n - 2]
                uploaded == calls[i][n - 1]
                probed == calls[i][n]
            IN  /\ n >= 5
                /\ waited.fn = "_query_video_task" /\ ~waited.out.raised
                /\ PollDecision(waited.out.val).do = "return"
                /\ r.source_video_url = PollDecision(waited.out.val).url
                /\ r.source_video_url # << >>
                /\ uploaded.fn = "_upload_video_to_cos" /\ ~uploaded.out.raised
                /\ r.stored_on_cos <=> (uploaded.out.val # << >>)
                /\ r.stored_on_cos => r.video_url = uploaded.out.val
                /\ ~r.stored_on_cos => r.video_url = r.source_video_url
                /\ probed.fn = "_head_content_length"
                /\ probed.arg.url = r.video_url
                /\ r.video_size_bytes = probed.out.val

\* C23 witness: the upload returned the storage URL, and the record has it as
\* video_url, the provider's URL as source_video_url, and stored_on_cos true
C23_Witness ==
    \E i \in Indices :
        /\ Finished(i) /\ IsSuccess(fut[i].val)
        /\ fut[i].val.stored_on_cos
        /\ fut[i].val.video_url = CosUrl
        /\ fut[i].val.source_video_url # CosUrl
        /\ calls[i][Len(calls[i])].arg.url = CosUrl

\* the total of a Content-Range header: the text after its last "/", trimmed
RangeTotal(rng) ==
    LET at == {k \in 1..Len(rng.content_range) : rng.content_range[k] = "/"}
    IN  IF at = {} THEN << >>
        ELSE LET last == CHOOSE k \in at : \A m \in at : m <= k
             IN  Strip(SubSeq(rng.content_range, last + 1, Len(rng.content_range)))

HeadYields(arg) == ~arg.head.raises /\ IsNumber(arg.head.content_length)

RangeYields(arg) ==
    ~arg.range.raises /\ (IsNumber(RangeTotal(arg.range)) \/ IsNumber(arg.range.content_length))

\* C24: _head_content_length tries HEAD, then the ranged GET, then the streamed
\* download, and stops at the first that yields a size: a HEAD answer with an
\* all-digit Content-Length is returned as it is and no GET is sent; if not,
\* the ranged GET's Content-Range total comes before its Content-Length; the
\* streamed download is sent only when both yielded nothing, and it reads no
\* further than the first chunk that brings the bytes read to max_probe.
C24_ProbeOrder ==
    \A i \in Indices :
        \A j \in 1..Len(calls[i]) :
            calls[i][j].fn = "_head_content_length" =>
                LET c == calls[i][j]
                    arg == c.arg
                IN  /\ HeadYields(arg) =>
                         /\ c.out.val = IntOf(arg.head.content_length)
                         /\ arg.requests = <<"HEAD">>
                    /\ (~HeadYields(arg) /\ RangeYields(arg)) =>
                         /\ arg.requests = <<"HEAD", "GET Range: bytes=0-0">>
                         /\ c.out.val = IF IsNumber(RangeTotal(arg.range))
                                        THEN IntOf(RangeTotal(arg.range))
                                        ELSE IntOf(arg.range.content_length)
                    /\ (~HeadYields(arg) /\ ~RangeYields(arg)) =>
                         /\ arg.requests = <<"HEAD", "GET Range: bytes=0-0", "GET stream">>
                         /\ c.out.val = IF arg.stream.raises THEN 0
                                        ELSE Min(arg.stream.length, max_probe)

HasMarker(text) == \E k \in 1..Len(text) : text[k] \in StyleMarkers

\* C25: the text of every task submission, first or retry, contains one of the
\* style markers: _ensure_anime_style returns the copy as it is when it
\* contains a marker, the copy followed by a space and the style hint when it
\* does not, and applied to its own result it returns that result.
C25_StyleMarkerInEverySubmit ==
    \A i \in Indices :
        \A j \in 1..Len(calls[i]) :
            (calls[i][j].fn = "_submit_video_task" /\ calls[i][j].arg # None) =>
                LET copy_text == calls[i][j].arg.copy_text
                    text == calls[i][j].arg.text
                IN  /\ HasMarker(text)
                    /\ HasMarker(copy_text) => text = copy_text
                    /\ ~HasMarker(copy_text) => text = copy_text \o <<" ">> \o StyleHint
                    /\ _ensure_anime_style(text) = text

\* C25 witness: the first submit sent a copy without marker with the hint
\* added, and the retry sent the rewritten copy, which had a marker, as it was
C25_Witness ==
    \E i \in Indices :
        /\ Len(calls[i]) >= 4
        /\ calls[i][2].fn = "_submit_video_task"
        /\ ~HasMarker(calls[i][2].arg.copy_text)
        /\ calls[i][2].arg.text # calls[i][2].arg.copy_text
        /\ calls[i][4].fn = "_submit_video_task"
        /\ HasMarker(calls[i][4].arg.copy_text)
        /\ calls[i][4].arg.text = calls[i][4].arg.copy_text

\* the place of the first entry of the request's list that is word once trimmed
FirstAt(word) ==
    CHOOSE m \in 1..Len(request.keywords) :
        /\ Strip(request.keywords[m]) = word
        /\ \A n \in 1..(m - 1) : Strip(request.keywords[n]) # word

\* C26: the keywords dispatched to _generate_single_video in one batch are
\* pairwise distinct, non-empty and trimmed; when the request supplied a list
\* with a usable entry, they are entries of that list in the order of their
\* first occurrence, and every entry passed over before the last of them is
\* blank or a repeat of one dispatched.
C26_DispatchedKeywordsClean ==
    Len(w) > 0 =>
        /\ Len(w) = Len(keywords)
        /\ Clean(keywords)
        /\ (request.has_list
            /\ \E m \in 1..Len(request.keywords) : Strip(request.keywords[m]) # << >>) =>
              /\ \A k \in 1..Len(keywords) :
                   \E m \in 1..Len(request.keywords) : Strip(request.keywords[m]) = keywords[k]
              /\ \A k \in 1..(Len(keywords) - 1) : FirstAt(keywords[k]) < FirstAt(keywords[k + 1])
              /\ \A m \in 1..(FirstAt(keywords[Len(keywords)]) - 1) :
                   \/ Strip(request.keywords[m]) = << >>
                   \/ \E k \in 1..Len(keywords) :
                        /\ keywords[k] = Strip(request.keywords[m])
                        /\ FirstAt(keywords[k]) <= m

\* C26 witness: the list ["a", "a "] was supplied and one keyword, "a", was
\* dispatched
C26_Witness ==
    /\ request.has_list
    /\ request.keywords = << <<"a">>, <<"a", " ">> >>
    /\ cfg.MAX_KEYWORDS_PER_BATCH = 2
    /\ Len(w) = 1
    /\ keywords = << <<"a">> >>

\* C27: every external call returning, every invocation of
\* _generate_single_video that was dispatched ends with a record, after at
\* most POLL_MAX_ATTEMPTS queries, and auto_publish ends with its response; an
\* invocation that has started always has a step of its own to take, whatever
\* the other invocations are doing.
C27_EveryRunTerminates ==
    /\ [](\A i \in Indices :
            /\ Count(calls[i], "_query_video_task") <= POLL_MAX_ATTEMPTS
            /\ i \in Running => ENABLED RunOne(i))
    /\ <>(/\ main = "done"
          /\ response # None
          /\ \A i \in Indices : Finished(i) /\ ~fut[i].raised)

\* C27 witness: a batch of two answered, one of whose invocations used up its
\* POLL_MAX_ATTEMPTS queries and returned the timeout record
C27_Witness ==
    /\ Answered
    /\ Len(keywords) = 2
    /\ \E i \in Indices :
         /\ Count(calls[i], "_query_video_task") = POLL_MAX_ATTEMPTS
         /\ fut[i] = Ret(ErrorRecord(keywords[i], <<"video generation timed out, retry later">>))

\* C28: when auto_publish builds its response, every slot of results has been
\* assigned once, from its own future, and none is None; count is the number
\* of keywords dispatched; ok_count is the number of records without an error
\* field, between 0 and count; and every invocation has returned.
C28_ResponseComplete ==
    Answered =>
        LET body == response.body
        IN  /\ Len(collected) = Len(keywords)
            /\ \A idx \in 1..Len(keywords) :
                 /\ Cardinality({p \in 1..Len(collected) : collected[p] = idx}) = 1
                 /\ body.results[idx] # None
                 /\ body.results[idx] = fut[idx].val
            /\ Len(body.results) = Len(keywords)
            /\ body.count = Len(keywords) /\ body.count = Len(w)
            /\ body.ok_count = Cardinality({idx \in 1..Len(keywords) :
                                               "error" \notin DOMAIN body.results[idx]})
            /\ 0 <= body.ok_count /\ body.ok_count <= body.count
            /\ \A i \in Indices : Finished(i) /\ w[i].pc = "done"

\* C28 witness: a batch of two answered with one success record and one error
\* record, the second keyword's record assigned first
C28_Witness ==
    /\ Answered
    /\ response.body.count = 2
    /\ response.body.ok_count = 1
    /\ collected = <<2, 1>>
    /\ "error" \in DOMAIN response.body.results[1]
    /\ "error" \notin DOMAIN response.body.results[2]

\* C29: whatever fails inside _upload_video_to_cos (the download answering
\* with a status other than 200, the download or the temporary-file write
\* raising, the upload to the storage failing), the run still returns a
\* success record for the video generated, with video_url equal to
\* source_video_url and stored_on_cos false.
C29_PersistFailureIsSoft ==
    \A i \in Indices :
        \A j \in 1..Len(calls[i]) :
            (/\ calls[i][j].fn = "_upload_video_to_cos"
             /\ calls[i][j].out.raised \/ calls[i][j].out.val = << >>
             /\ Finished(i)) =>
                /\ IsSuccess(fut[i].val)
                /\ fut[i].val.video_url = fut[i].val.source_video_url
                /\ ~fut[i].val.stored_on_cos

\* C30: _safe_filename is idempotent: for every keyword k,
\* _safe_filename(_safe_filename(k)) = _safe_filename(k), also for a keyword
\* of more than 80 characters cut on or next to a space; so the video_title of
\* a record is a name _safe_filename leaves as it is.
C30_SafeNameIdempotent ==
    \A i \in Indices :
        (Finished(i) /\ IsSuccess(fut[i].val)) =>
            /\ fut[i].val.video_title = _safe_filename(keywords[i])
            /\ _safe_filename(fut[i].val.video_title) = fut[i].val.video_title

=============================================================================
